---------------------------- MODULE Spec2Model ----------------------------
(***************************************************************************)
(* Model of the Mahoraga triage engine (src/backend).                      *)
(*                                                                         *)
(* Two parts share one clock:                                              *)
(*   - the circuit breaker of error_handling.py (CircuitBreaker and the    *)
(*     breaker-facing steps of execute_with_fallback), SpecBreaker;        *)
(*   - webhook ingress and the triage worker of webhook_handler.py,        *)
(*     SpecIngress.                                                        *)
(*                                                                         *)
(* The program runs on one asyncio event loop: code between two awaits is  *)
(* atomic, so every action below is one await-free stretch of a handler.   *)
(***************************************************************************)
EXTENDS Integers, Sequences, FiniteSets, TLC

(***************************************************************************)
(* Bounds of the model                                                     *)
(***************************************************************************)
\* seconds the clock advances in one Tick of the breaker specification
TickSeconds == 10
\* the clock stops advancing once it has reached MaxTicks ticks
MaxTicks == 5
\* calls to execute_with_fallback that are started in one behaviour
MaxCalls == 9
\* calls whose primary function is awaited at the same time
MaxInFlight == 3

(***************************************************************************)
(* Program constants: CircuitBreakerConfig of the "github_api" breaker     *)
(***************************************************************************)
failure_threshold == 3
timeout_seconds == 30
success_threshold == 3
max_requests_half_open == 5

\* Optional[datetime] = None
NoTime == 0 - 1

VARIABLES
    now,            \* datetime.utcnow(), in seconds
    cb,             \* the CircuitBreaker object
    in_flight,      \* execution contexts admitted and awaiting the primary function
    started,        \* calls started so far (bounds the behaviour)
    streak,         \* history: failures recorded since the last recorded success
    ho_successes,   \* history: successes recorded since the breaker last entered half_open
    opened_at,      \* history: the time the breaker last moved to open
    ho_admitted,    \* history: calls admitted since the breaker entered half_open
    service_level,  \* service_statuses[service].level
    fallback_registered,    \* whether fallback_strategies holds the service
    administrator_notifications_sent,   \* alert key -> time of the last alert
    admin_alerts,   \* history: the administrator alerts emitted, in order
    admin_alert_rows,   \* table system_config: the rows with key admin_alert_...
    last_call,      \* history: how the last call of execute_with_fallback ended
    github_webhook_secret,  \* settings.github_webhook_secret
    queue,          \* TriageJobQueue._queue
    job,            \* the job the worker is processing (NoJob when it waits on the queue)
    processing,     \* TriageJobQueue._processing
    second_loop,    \* the task of a later start_processing call and its position
    triage_decisions,   \* table triage_decisions, in insertion order
    assignments,    \* table assignments, in insertion order
    last_delivery,  \* history: the last webhook request and its answer
    answers,        \* history: the answers accepted / duplicate, in order
    finished,       \* history: the jobs the worker is done with, in order
    gemini_configured,  \* AIAnalysisService.model is not None
    llm_cb,         \* the CircuitBreaker of "gemini_api"
    analyze_call,   \* the analyze_bug call in progress and its position
    last_analysis,  \* history: how the last analyze_bug call ended
    failed_analyses,    \* history: analyze_bug calls in a row whose LLM requests all failed
    slack_configured,   \* SlackNotificationService.client is not None
    slack_cb,       \* the CircuitBreaker of "slack_api"
    send_call,      \* the _send_with_retry call in progress and its position
    last_send,      \* history: how the last _send_with_retry call ended
    system_config,  \* table system_config: the rows written by the chat fallback
    users,          \* table users: developer -> "active", "inactive" or "absent" (no row)
    expertise_cache,    \* table expertise_cache for the affected file
    last_triage,    \* history: the last calculate_bug_assignment call and its result
    reassignments,  \* history: the (issue, developer) pairs taken off an assignment
    admin_ops,      \* history: requests served by reassign_assignment and update_user
    last_draft,     \* history: the last run of the draft step of _process_job
    last_score,     \* history: the last calculate_confidence_score call
    last_health,    \* history: the last get_system_health call
    cache_table,    \* table expertise_cache: file -> the rows of the file
    last_lookup     \* history: the last get_file_expertise call and its result

breakerVars == <<cb, in_flight, started, streak, ho_successes, opened_at,
                 ho_admitted, service_level,
                 fallback_registered, administrator_notifications_sent,
                 admin_alerts, admin_alert_rows, last_call>>
ingressVars == <<github_webhook_secret, queue, job, processing, second_loop, triage_decisions, assignments,
                 last_delivery, answers, finished>>
analyzeVars == <<gemini_configured, llm_cb, analyze_call, last_analysis, failed_analyses>>
notifyVars == <<slack_configured, slack_cb, send_call, last_send, system_config>>
assignVars == <<users, expertise_cache, last_triage, reassignments, admin_ops>>
evalVars == <<last_draft, last_score, last_health>>
cacheVars == <<cache_table, last_lookup>>
vars == <<now, breakerVars, ingressVars, analyzeVars, notifyVars, assignVars, evalVars, cacheVars>>

(***************************************************************************)
(* CircuitBreaker (error_handling.py)                                      *)
(***************************************************************************)
CircuitBreakerMetrics ==
    [ total_requests      |-> 0,
      successful_requests |-> 0,
      failed_requests     |-> 0,
      last_failure_time   |-> NoTime,
      last_success_time   |-> NoTime ]

\* CircuitBreakerConfig with the two values _initialize_circuit_breakers sets
CircuitBreakerConfig(threshold, timeout) ==
    [ failure_threshold      |-> threshold,
      timeout_seconds        |-> timeout,
      success_threshold      |-> success_threshold,
      max_requests_half_open |-> max_requests_half_open ]

\* CircuitBreaker.__init__
CircuitBreaker(config) ==
    [ config             |-> config,
      state              |-> "closed",
      failure_count      |-> 0,
      success_count      |-> 0,
      last_failure_time  |-> NoTime,
      metrics            |-> CircuitBreakerMetrics,
      half_open_requests |-> 0 ]

\* the breaker of "github_api"
CircuitBreakerInit ==
    CircuitBreaker(CircuitBreakerConfig(failure_threshold, timeout_seconds))

_transition_to_half_open(b) ==
    [b EXCEPT !.state = "half_open", !.half_open_requests = 0, !.success_count = 0]

\* fault variant of _transition_to_closed: the failure count survives the closing
_transition_to_closed_keeps_failures(b) ==
    [b EXCEPT !.state = "closed", !.half_open_requests = 0]

_transition_to_closed(b) ==
    [b EXCEPT !.state = "closed", !.failure_count = 0, !.half_open_requests = 0]

_transition_to_open(b, t) ==
    [b EXCEPT !.state = "open", !.last_failure_time = t, !.half_open_requests = 0]

\* fault variant of the timeout test: >= where the code has >
TimeoutExpired_at_timeout(b, t) ==
    b.last_failure_time # NoTime /\ t - b.last_failure_time >= b.config.timeout_seconds

\* the timeout test of can_execute in state open
TimeoutExpired(b, t) ==
    b.last_failure_time # NoTime /\ t - b.last_failure_time > b.config.timeout_seconds

\* can_execute returns a value and may change the breaker: the value ...
can_execute(b, t) ==
    CASE b.state = "closed"    -> TRUE
      [] b.state = "open"      -> TimeoutExpired(b, t)
      [] b.state = "half_open" -> b.half_open_requests < b.config.max_requests_half_open

\* ... and the breaker it leaves behind
after_can_execute(b, t) ==
    IF b.state = "open" /\ TimeoutExpired(b, t) THEN _transition_to_half_open(b) ELSE b

\* fault variant of record_success: a success in closed leaves failure_count alone
record_success_no_reset(b, t) ==
    LET m == [b.metrics EXCEPT !.total_requests = @ + 1,
                               !.successful_requests = @ + 1,
                               !.last_success_time = t]
        b1 == [b EXCEPT !.metrics = m]
    IN  CASE b1.state = "half_open" ->
               LET b2 == [b1 EXCEPT !.success_count = @ + 1]
               IN  IF b2.success_count >= b.config.success_threshold
                   THEN _transition_to_closed(b2) ELSE b2
          [] OTHER -> b1

record_success(b, t) ==
    LET m == [b.metrics EXCEPT !.total_requests = @ + 1,
                               !.successful_requests = @ + 1,
                               !.last_success_time = t]
        b1 == [b EXCEPT !.metrics = m]
    IN  CASE b1.state = "half_open" ->
               LET b2 == [b1 EXCEPT !.success_count = @ + 1]
               IN  IF b2.success_count >= b.config.success_threshold
                   THEN _transition_to_closed(b2) ELSE b2
          [] b1.state = "closed" -> [b1 EXCEPT !.failure_count = 0]
          [] OTHER -> b1

\* fault variant of record_failure: a failure in half_open is only counted in
\* the metrics
record_failure_closed_only(b, t) ==
    LET m == [b.metrics EXCEPT !.total_requests = @ + 1,
                               !.failed_requests = @ + 1,
                               !.last_failure_time = t]
        b1 == [b EXCEPT !.metrics = m]
    IN  CASE b1.state = "closed" ->
               LET b2 == [b1 EXCEPT !.failure_count = @ + 1]
               IN  IF b2.failure_count >= b.config.failure_threshold
                   THEN _transition_to_open(b2, t) ELSE b2
          [] OTHER -> b1

\* fault variant of record_failure: total_requests is not counted
record_failure_no_total(b, t) ==
    LET m == [b.metrics EXCEPT !.failed_requests = @ + 1,
                               !.last_failure_time = t]
        b1 == [b EXCEPT !.metrics = m]
    IN  CASE b1.state = "half_open" -> _transition_to_open(b1, t)
          [] b1.state = "closed" ->
               LET b2 == [b1 EXCEPT !.failure_count = @ + 1]
               IN  IF b2.failure_count >= b.config.failure_threshold
                   THEN _transition_to_open(b2, t) ELSE b2
          [] OTHER -> b1

record_failure(b, t) ==
    LET m == [b.metrics EXCEPT !.total_requests = @ + 1,
                               !.failed_requests = @ + 1,
                               !.last_failure_time = t]
        b1 == [b EXCEPT !.metrics = m]
    IN  CASE b1.state = "half_open" -> _transition_to_open(b1, t)
          [] b1.state = "closed" ->
               LET b2 == [b1 EXCEPT !.failure_count = @ + 1]
               IN  IF b2.failure_count >= b.config.failure_threshold
                   THEN _transition_to_open(b2, t) ELSE b2
          [] OTHER -> b1

\* get_status evaluates can_execute for its "can_execute" entry
get_status(b, t) == after_can_execute(b, t)

\* execute up to the yield without the count of the call admitted in half_open
execute_enter_uncounted(b, t) == after_can_execute(b, t)

\* CircuitBreaker.execute up to the yield: the context is built (can_proceed =
\* can_execute()) and an admitted call in half_open is counted
execute_enter(b, t) ==
    LET b1 == after_can_execute(b, t)
    IN  IF can_execute(b, t) /\ b1.state = "half_open"
        THEN [b1 EXCEPT !.half_open_requests = @ + 1] ELSE b1

\* history variables, kept beside the breaker: b is the breaker before the step,
\* b1 after it
HistoryAfter(b, b1) ==
    LET success == b1.metrics.successful_requests > b.metrics.successful_requests
        failure == b1.metrics.failed_requests > b.metrics.failed_requests
    IN  /\ ho_successes' =
             CASE b.state # "half_open" /\ b1.state = "half_open" -> 0
               [] success -> ho_successes + 1
               [] OTHER -> ho_successes
        /\ streak' =
             CASE success -> 0
               [] failure -> streak + 1
               [] OTHER -> streak
        /\ opened_at' =
             IF b.state # "open" /\ b1.state = "open" THEN now ELSE opened_at

\* the calls admitted in the half_open episode the breaker is in after a step
\* (none outside half_open); admitted tells whether the step admitted a call
AdmittedAfter(b, b1, admitted) ==
    CASE b1.state # "half_open" -> 0
      [] b.state # "half_open" -> IF admitted THEN 1 ELSE 0
      [] OTHER -> IF admitted THEN ho_admitted + 1 ELSE ho_admitted

(***************************************************************************)
(* GracefulDegradationManager (error_handling.py)                          *)
(***************************************************************************)
\* the error messages an alert may carry: str(e) of the primary function's
\* exception, and the text used when the breaker denies the call
PrimaryErrors == {"primary error"}
BreakerOpenMessage == "Circuit breaker is open"
AlertMessages == PrimaryErrors \cup {BreakerOpenMessage}

\* alerts with the same key are not repeated within this many seconds
alert_throttle_seconds == 3600

\* _notify_administrators with the throttle left out
_notify_administrators_unthrottled(sent, error_message, t) ==
    [sent |-> [sent EXCEPT ![error_message] = t], emitted |-> TRUE]

\* _notify_administrators: the throttle table it leaves and whether the alert
\* was emitted (logged at critical level and stored)
_notify_administrators(sent, error_message, t) ==
    IF sent[error_message] # NoTime /\ t - sent[error_message] < alert_throttle_seconds
    THEN [sent |-> sent, emitted |-> FALSE]
    ELSE [sent |-> [sent EXCEPT ![error_message] = t], emitted |-> TRUE]

\* _store_admin_notification: the row is added under the key
\* admin_alert_<service>_<int(time.time())>; key is the primary key of
\* system_config, so the commit of a second row of the same second fails and
\* the exception is logged and dropped
_store_admin_notification(rows, error_message, t) ==
    IF \E k \in 1..Len(rows) : rows[k].key = t
    THEN rows
    ELSE Append(rows, [key |-> t, error |-> error_message])

\* what an emitted alert leaves: the critical log line and the stored row
alerts_after(alerts, emitted, error_message, t) ==
    IF emitted THEN Append(alerts, [error_message |-> error_message, at |-> t])
    ELSE alerts
rows_after(rows, emitted, error_message, t) ==
    IF emitted THEN _store_admin_notification(rows, error_message, t) ELSE rows

\* fault variant of after_primary_unavailable: a failed fallback ends the call
\* without an alert
after_primary_unavailable_no_alert(registered, fallback_ok, sent, error_message, t) ==
    IF registered
    THEN [fallback_invoked |-> TRUE, raised |-> ~fallback_ok, emitted |-> FALSE,
          sent |-> sent]
    ELSE LET n == _notify_administrators(sent, error_message, t)
         IN  [fallback_invoked |-> FALSE, raised |-> TRUE,
              emitted |-> n.emitted, sent |-> n.sent]

\* execute_with_fallback once the primary function raised or the breaker
\* denied the call: the fallback, the alert and how the call ends
after_primary_unavailable(registered, fallback_ok, sent, error_message, t) ==
    IF registered /\ fallback_ok
    THEN [fallback_invoked |-> TRUE, raised |-> FALSE, emitted |-> FALSE, sent |-> sent]
    ELSE LET n == _notify_administrators(sent, error_message, t)
         IN  [fallback_invoked |-> registered, raised |-> TRUE,
              emitted |-> n.emitted, sent |-> n.sent]

\* the outcomes the registered fallback may have (nothing is called when none
\* is registered)
FallbackOutcomes(registered) == IF registered THEN BOOLEAN ELSE {FALSE}

NoCall == [kind |-> "none", error_message |-> "", fallback_invoked |-> FALSE,
           fallback_ok |-> FALSE, raised |-> FALSE, emitted |-> FALSE]

(***************************************************************************)
(* Actions of the breaker specification                                    *)
(***************************************************************************)
\* execute_with_fallback, admitted: the primary function is called and awaited
CallAdmitted ==
    /\ started < MaxCalls
    /\ in_flight < MaxInFlight
    /\ can_execute(cb, now)
    /\ cb' = execute_enter(cb, now)
    /\ in_flight' = in_flight + 1
    /\ started' = started + 1
    /\ HistoryAfter(cb, cb')
    /\ ho_admitted' = AdmittedAfter(cb, cb', TRUE)
    /\ service_level' = service_level
    /\ UNCHANGED <<now, fallback_registered, administrator_notifications_sent,
                   admin_alerts, admin_alert_rows, last_call, ingressVars, analyzeVars, notifyVars, assignVars, evalVars, cacheVars>>

\* execute_with_fallback, denied: the status is set to critical (which reads
\* get_status) and the fallback runs; the primary function is not called
CallDenied ==
    /\ started < MaxCalls
    /\ ~can_execute(cb, now)
    /\ cb' = get_status(execute_enter(cb, now), now)
    /\ started' = started + 1
    /\ HistoryAfter(cb, cb')
    /\ ho_admitted' = AdmittedAfter(cb, cb', FALSE)
    /\ service_level' = "critical"
    /\ \E fallback_ok \in FallbackOutcomes(fallback_registered) :
         LET r == after_primary_unavailable(fallback_registered, fallback_ok,
                      administrator_notifications_sent, BreakerOpenMessage, now)
         IN  /\ administrator_notifications_sent' = r.sent
             /\ admin_alerts' = alerts_after(admin_alerts, r.emitted,
                                             BreakerOpenMessage, now)
             /\ admin_alert_rows' = rows_after(admin_alert_rows, r.emitted,
                                               BreakerOpenMessage, now)
             /\ last_call' = [kind |-> "denied", error_message |-> BreakerOpenMessage,
                              fallback_invoked |-> r.fallback_invoked,
                              fallback_ok |-> fallback_ok,
                              raised |-> r.raised, emitted |-> r.emitted]
    /\ UNCHANGED <<now, in_flight, fallback_registered, ingressVars, analyzeVars, notifyVars, assignVars, evalVars, cacheVars>>

\* the primary function returned: cb.record_success(), then _update_service_status
\* (which reads get_status)
PrimarySucceeds ==
    /\ in_flight > 0
    /\ cb' = get_status(record_success(cb, now), now)
    /\ in_flight' = in_flight - 1
    /\ HistoryAfter(cb, cb')
    /\ ho_admitted' = AdmittedAfter(cb, cb', FALSE)
    /\ service_level' = "normal"
    /\ last_call' = [NoCall EXCEPT !.kind = "succeeded"]
    /\ UNCHANGED <<now, started, fallback_registered,
                   administrator_notifications_sent, admin_alerts, admin_alert_rows,
                   ingressVars, analyzeVars, notifyVars, assignVars, evalVars, cacheVars>>

\* the primary function raised: cb.record_failure(), then _update_service_status
PrimaryFails ==
    /\ in_flight > 0
    /\ cb' = get_status(record_failure(cb, now), now)
    /\ in_flight' = in_flight - 1
    /\ HistoryAfter(cb, cb')
    /\ ho_admitted' = AdmittedAfter(cb, cb', FALSE)
    /\ service_level' = "degraded"
    /\ \E e \in PrimaryErrors, fallback_ok \in FallbackOutcomes(fallback_registered) :
         LET r == after_primary_unavailable(fallback_registered, fallback_ok,
                      administrator_notifications_sent, e, now)
         IN  /\ administrator_notifications_sent' = r.sent
             /\ admin_alerts' = alerts_after(admin_alerts, r.emitted, e, now)
             /\ admin_alert_rows' = rows_after(admin_alert_rows, r.emitted, e, now)
             /\ last_call' = [kind |-> "failed", error_message |-> e,
                              fallback_invoked |-> r.fallback_invoked,
                              fallback_ok |-> fallback_ok,
                              raised |-> r.raised, emitted |-> r.emitted]
    /\ UNCHANGED <<now, started, fallback_registered, ingressVars, analyzeVars, notifyVars, assignVars, evalVars, cacheVars>>

\* the awaiting task is cancelled: CancelledError is no Exception, nothing is recorded
PrimaryCancelled ==
    /\ in_flight > 0
    /\ in_flight' = in_flight - 1
    /\ UNCHANGED <<now, cb, started, streak, ho_successes, opened_at, ho_admitted, service_level,
                   fallback_registered, administrator_notifications_sent,
                   admin_alerts, admin_alert_rows, last_call, ingressVars, analyzeVars, notifyVars, assignVars, evalVars, cacheVars>>

\* a status read (health check); get_status calls can_execute
GetStatus ==
    /\ cb' = get_status(cb, now)
    /\ cb' # cb
    /\ HistoryAfter(cb, cb')
    /\ ho_admitted' = AdmittedAfter(cb, cb', FALSE)
    /\ service_level' = service_level
    /\ UNCHANGED <<now, in_flight, started, fallback_registered,
                   administrator_notifications_sent, admin_alerts, admin_alert_rows,
                   last_call, ingressVars, analyzeVars, notifyVars, assignVars, evalVars, cacheVars>>

Tick ==
    /\ now < MaxTicks * TickSeconds
    /\ now' = now + TickSeconds
    /\ UNCHANGED <<breakerVars, ingressVars, analyzeVars, notifyVars, assignVars, evalVars, cacheVars>>

InitBreakerVars ==
    /\ cb = CircuitBreakerInit
    /\ in_flight = 0
    /\ started = 0
    /\ streak = 0
    /\ ho_successes = 0
    /\ opened_at = NoTime
    /\ ho_admitted = 0
    /\ service_level = "normal"
    /\ administrator_notifications_sent = [m \in AlertMessages |-> NoTime]
    /\ admin_alerts = <<>>
    /\ admin_alert_rows = <<>>
    /\ last_call = NoCall

(***************************************************************************)
(* Webhook ingress (webhook_handler.py)                                    *)
(***************************************************************************)
\* settings.github_webhook_secret unset (None)
NoSecret == ""
\* the key the sender may sign with: the configured one or another
Keys == {"k1", "k2"}
Issues == {"17", "18"}
EventTypes == {"issues", "pull_request", "push"}

\* request bodies: one that is no JSON, and payloads {action, issue|pull_request: {id}}
MalformedBody == [json |-> FALSE, action |-> "", id |-> ""]
Bodies ==
    {MalformedBody} \cup
    {[json |-> TRUE, action |-> a, id |-> i] : a \in {"opened", "closed"}, i \in Issues}

\* hmac.new(secret, payload, sha256).hexdigest(): lower-case hex, one value for
\* each (key, message)
hexdigest(key, payload) == [key |-> key, msg |-> payload, form |-> "hex"]

NoDigest == [key |-> "", msg |-> MalformedBody, form |-> "empty"]
NoHeader == [scheme |-> "", digest |-> NoDigest]

\* the X-Hub-Signature-256 headers a request with this body may carry
SignatureHeaders(body) ==
    {NoHeader} \cup
    {[scheme |-> "sha256=", digest |-> hexdigest(k, body)] : k \in Keys} \cup
    {[scheme |-> "sha1=", digest |-> hexdigest("k1", body)],
     [scheme |-> "sha256=", digest |-> [hexdigest("k1", body) EXCEPT !.form = "HEX"]],
     [scheme |-> "sha256=", digest |-> [hexdigest("k1", body) EXCEPT !.form = "non_ascii"]]}

\* hmac.compare_digest on two str: TypeError unless both are ASCII
compare_digest(a, b) ==
    IF a.form = "non_ascii" \/ b.form = "non_ascii" THEN "TypeError"
    ELSE IF a = b THEN "True" ELSE "False"

\* WebhookSignatureVerifier.verify_signature: "True", "False" or the exception raised
verify_signature(payload, signature, secret) ==
    CASE secret = NoSecret -> "True"
      [] signature = NoHeader -> "False"
      [] signature.scheme # "sha256=" -> "False"
      [] OTHER -> compare_digest(signature.digest, hexdigest(secret, payload))

verify_webhook_signature(body, signature, secret) ==
    verify_signature(body, signature, secret)

duplicate_detection_window_minutes == 10

\* DuplicateDetector.is_duplicate at time t against the rows of triage_decisions
is_duplicate(issue_id, rows, t) ==
    LET cutoff_time == t - duplicate_detection_window_minutes * 60
    IN  \E k \in 1..Len(rows) :
            rows[k].issue_id = issue_id /\ rows[k].created_at >= cutoff_time

\* GitHubEventParser.parse_issue_event / parse_pull_request_event: None unless opened
NoParsedData == [type |-> "None"]
\* parse_issue_event without the test of the action
parse_issue_event_any_action(payload) ==
    [type |-> "issue", issue_id |-> payload.id]
parse_issue_event(payload) ==
    IF payload.action # "opened" THEN NoParsedData
    ELSE [type |-> "issue", issue_id |-> payload.id]

parse_pull_request_event(payload) ==
    IF payload.action # "opened" THEN NoParsedData
    ELSE [type |-> "pull_request", pr_id |-> payload.id]

\* parsed_data.get('issue_id', parsed_data.get('pr_id'))
IssueIdOf(data) == IF data.type = "issue" THEN data.issue_id ELSE data.pr_id

\* GitHubWebhookHandler.handle_webhook: the answer, and the job it enqueues
handle_webhook(event_type, body, signature, secret, rows, t) ==
    LET verified == verify_webhook_signature(body, signature, secret)
        parsed_data == IF event_type = "issues" THEN parse_issue_event(body)
                       ELSE parse_pull_request_event(body)
    IN  CASE verified = "TypeError" ->
               [code |-> 500, status |-> "error", enqueue |-> <<>>]
          [] verified = "False" ->
               [code |-> 401, status |-> "error", enqueue |-> <<>>]
          [] ~body.json ->
               [code |-> 400, status |-> "error", enqueue |-> <<>>]
          [] event_type \notin {"issues", "pull_request"} ->
               [code |-> 202, status |-> "ignored", enqueue |-> <<>>]
          [] parsed_data = NoParsedData ->
               [code |-> 202, status |-> "ignored", enqueue |-> <<>>]
          [] is_duplicate(IssueIdOf(parsed_data), rows, t) ->
               [code |-> 202, status |-> "duplicate", enqueue |-> <<>>]
          [] OTHER ->
               [code |-> 202, status |-> "accepted", enqueue |-> <<parsed_data>>]

(***************************************************************************)
(* Assignment engine as the worker uses it (assignment_engine.py)          *)
(***************************************************************************)
NoEmail == "None"
confidence_threshold == 60
\* the authors git blame may name
Developers == {"alice", "bob", "carol", "dave"}

\* the ranked candidates get_assignment_candidates may return for a job
CandidateLists == {<<>>, <<"alice">>, <<"alice", "bob">>, <<"bob", "alice">>}
\* Optional[BugAnalysis] as the worker and the engine read it; confidence is
\* in hundredths
NoAnalysis == [affected_files |-> <<>>, available |-> FALSE, confidence |-> 0]
\* the results analyze_bug_report may return for a job: None, or an analysis
Analyses ==
    {NoAnalysis,
     [affected_files |-> <<"backend/x.py">>, available |-> TRUE, confidence |-> 90]}

\* what the expertise scores of the affected files amount to: the highest
\* score, the affected files that have scores, and the scores whose last
\* commit is less than 30 days old
NoExpertise == [available |-> FALSE, max_score |-> 0, covered |-> 0, recent |-> 0]
ExpertiseData ==
    {[available |-> TRUE, max_score |-> 400, covered |-> 1, recent |-> 1],
     [available |-> TRUE, max_score |-> 4000, covered |-> 1, recent |-> 1]}

Min(a, b) == IF a < b THEN a ELSE b
\* max with the comparison reversed
Max_reversed(a, b) == IF a < b THEN a ELSE b
Max(a, b) == IF a > b THEN a ELSE b

\* calculate_confidence_score whose expertise factor has no cap
calculate_confidence_score_uncapped(bug_analysis, expertise, affected) ==
    LET ai_confidence == IF bug_analysis.available
                         THEN (bug_analysis.confidence * 40) \div 100 ELSE 0
        expertise_confidence == IF expertise.available
            THEN (expertise.max_score * 35) \div 1000 ELSE 0
        coverage_confidence == IF affected > 0 /\ expertise.available
            THEN (expertise.covered * 15) \div affected ELSE 0
        recency_bonus == IF expertise.available /\ expertise.recent > 0
            THEN Min(10, expertise.recent * 2) ELSE 0
        total_confidence == ai_confidence + expertise_confidence
                            + coverage_confidence + recency_bonus
    IN  total_confidence

\* AssignmentEngine.calculate_confidence_score, in points: the four factors
\* (at most 40, 35, 15 and 10), summed and bounded to 0..100
calculate_confidence_score(bug_analysis, expertise, affected) ==
    LET ai_confidence == IF bug_analysis.available
                         THEN (bug_analysis.confidence * 40) \div 100 ELSE 0
        expertise_confidence == IF expertise.available
            THEN Min(35, (expertise.max_score * 35) \div 1000) ELSE 0
        coverage_confidence == IF affected > 0 /\ expertise.available
            THEN (expertise.covered * 15) \div affected ELSE 0
        recency_bonus == IF expertise.available /\ expertise.recent > 0
            THEN Min(10, expertise.recent * 2) ELSE 0
        total_confidence == ai_confidence + expertise_confidence
                            + coverage_confidence + recency_bonus
    IN  Max(0, Min(100, total_confidence))
\* the candidates whose loop check raises: none, one, or all (database down)
CheckErrorSets == {{}, {"alice"}, Developers}

\* AssignmentEngine.check_assignment_loop, which answers True when the query
\* raised; check_errors holds the candidates whose query raises
check_assignment_loop_fail_open(issue_id, candidate_email, rows, check_errors) ==
    /\ candidate_email \notin check_errors
    /\ \E k \in 1..Len(rows) :
          rows[k].issue_id = issue_id /\ rows[k].assigned_to_email = candidate_email

check_assignment_loop(issue_id, candidate_email, rows, check_errors) ==
    IF candidate_email \in check_errors THEN TRUE
    ELSE \E k \in 1..Len(rows) :
            rows[k].issue_id = issue_id /\ rows[k].assigned_to_email = candidate_email

RECURSIVE Filter(_, _, _, _)
Filter(cands, issue_id, rows, check_errors) ==
    IF cands = <<>> THEN <<>>
    ELSE IF check_assignment_loop(issue_id, Head(cands), rows, check_errors)
         THEN Filter(Tail(cands), issue_id, rows, check_errors)
         ELSE <<Head(cands)>> \o Filter(Tail(cands), issue_id, rows, check_errors)

Prefix(seq, n) == SubSeq(seq, 1, IF Len(seq) < n THEN Len(seq) ELSE n)

Priority(confidence) ==
    IF confidence >= 80 THEN "high" ELSE IF confidence >= 60 THEN "medium" ELSE "low"

\* the value column of the SystemConfig row "confidence_threshold": no row, a
\* number, or text that float() rejects
ThresholdConfigs == {"None", "75", "high"}
\* AssignmentEngine.get_confidence_threshold
get_confidence_threshold(config) ==
    CASE config = "None" -> confidence_threshold
      [] config = "75"   -> 75
      [] OTHER           -> confidence_threshold

\* AssignmentEngine.calculate_assignment that names the best candidate as
\* assignee whatever the confidence
calculate_assignment_keeps_assignee(issue_id, candidates, confidence, rows, check_errors, threshold) ==
    LET valid_candidates == Filter(candidates, issue_id, rows, check_errors)
        should_route_to_human == confidence < threshold
    IN  IF candidates = <<>> THEN
            [assignee_email |-> NoEmail, confidence |-> 0, priority |-> "medium",
             should_route_to_human |-> TRUE, fallback_candidates |-> <<>>]
        ELSE IF valid_candidates = <<>> THEN
            [assignee_email |-> NoEmail, confidence |-> 0, priority |-> "medium",
             should_route_to_human |-> TRUE,
             fallback_candidates |-> Prefix(candidates, 3)]
        ELSE
            [assignee_email |-> Head(valid_candidates),
             confidence |-> confidence, priority |-> Priority(confidence),
             should_route_to_human |-> should_route_to_human,
             fallback_candidates |-> Prefix(Tail(valid_candidates), 3)]

\* AssignmentEngine.calculate_assignment, given the candidates, the score and
\* the threshold
calculate_assignment(issue_id, candidates, confidence, rows, check_errors, threshold) ==
    LET valid_candidates == Filter(candidates, issue_id, rows, check_errors)
        should_route_to_human == confidence < threshold
    IN  IF candidates = <<>> THEN
            [assignee_email |-> NoEmail, confidence |-> 0, priority |-> "medium",
             should_route_to_human |-> TRUE, fallback_candidates |-> <<>>]
        ELSE IF valid_candidates = <<>> THEN
            [assignee_email |-> NoEmail, confidence |-> 0, priority |-> "medium",
             should_route_to_human |-> TRUE,
             fallback_candidates |-> Prefix(candidates, 3)]
        ELSE
            [assignee_email |-> IF should_route_to_human THEN NoEmail
                                ELSE Head(valid_candidates),
             confidence |-> confidence, priority |-> Priority(confidence),
             should_route_to_human |-> should_route_to_human,
             fallback_candidates |-> Prefix(Tail(valid_candidates), 3)]

\* AssignmentEngine.get_current_workload: the rows of the developer with status
\* "assigned"
get_current_workload(developer_email, rows) ==
    Cardinality({k \in 1..Len(rows) :
                    /\ rows[k].assigned_to_email = developer_email
                    /\ rows[k].status = "assigned"})

\* AssignmentEngine.record_assignment: the table after the call
record_assignment(issue_id, result, rows) ==
    IF result.should_route_to_human THEN rows
    ELSE Append(rows, [issue_id |-> issue_id,
                       assigned_to_email |-> result.assignee_email,
                       confidence |-> result.confidence,
                       status |-> "assigned"])

\* what a call of calculate_bug_assignment hands back: it is a plain def, so the
\* call returns the AssignmentResult itself, no awaitable
async_def_returns(result) == [awaitable |-> TRUE, value |-> result]
plain_def_returns(result) == [awaitable |-> FALSE, value |-> result]

\* calculate_bug_assignment that adds the row whatever the result
calculate_bug_assignment_records_all(issue_id, candidates, confidence, rows, check_errors, threshold) ==
    LET result == calculate_assignment(issue_id, candidates, confidence, rows,
                                       check_errors, threshold)
    IN  [returned |-> plain_def_returns(result),
         assignments |-> Append(rows, [issue_id |-> issue_id,
                                       assigned_to_email |-> result.assignee_email,
                                       confidence |-> result.confidence,
                                       status |-> "assigned"])]

\* calculate_bug_assignment: what it returns and the assignments table it leaves
calculate_bug_assignment(issue_id, candidates, confidence, rows, check_errors, threshold) ==
    LET result == calculate_assignment(issue_id, candidates, confidence, rows,
                                       check_errors, threshold)
    IN  [returned |-> plain_def_returns(result),
         assignments |-> IF ~result.should_route_to_human
                         THEN record_assignment(issue_id, result, rows)
                         ELSE rows]

\* an await that yields the value of any object
Await_any(obj) == [raised |-> FALSE, value |-> obj.value]

\* Python's await: TypeError on an object that is no awaitable
Await(obj) ==
    IF obj.awaitable THEN [raised |-> FALSE, value |-> obj.value]
    ELSE [raised |-> TRUE, value |-> obj.value]

(***************************************************************************)
(* Triage worker (TriageJobQueue)                                          *)
(***************************************************************************)
NoJob == [pc |-> "idle"]
\* the loop of start_processing was left
WorkerExited == [pc |-> "exited"]
\* the file paths the parsed stack trace may give (none when there is no trace)
TraceFiles == {<<>>, <<"backend/x.py">>}
NoUrl == "None"
\* whether the steps of the draft path that can fail (file content, LLM fix,
\* validation; branch, commit, review request) succeed
DraftOutcomes == [fix_ok : BOOLEAN, pr_ok : BOOLEAN]

\* should_generate_draft_fix that lets every confidence through
should_generate_draft_fix_always(confidence) == confidence >= 0
\* DraftPRGenerator.should_generate_draft_fix: only above 85
should_generate_draft_fix(confidence) == confidence > 85

\* DraftPRGenerator.generate_draft_fix: a DraftFix or None, or the
\* AttributeError of reading bug_analysis.confidence when bug_analysis is None
generate_draft_fix(bug_analysis, fix_ok) ==
    IF ~bug_analysis.available THEN [raised |-> TRUE, draft_fix |-> FALSE]
    ELSE IF ~should_generate_draft_fix(bug_analysis.confidence)
         THEN [raised |-> FALSE, draft_fix |-> FALSE]
    ELSE IF bug_analysis.affected_files = <<>>
         THEN [raised |-> FALSE, draft_fix |-> FALSE]
    ELSE [raised |-> FALSE, draft_fix |-> fix_ok]

\* step 4 of _process_job: the draft fix and the draft review request
draft_step(confidence, bug_analysis, outcome) ==
    IF should_generate_draft_fix(confidence) THEN
        LET g == generate_draft_fix(bug_analysis, outcome.fix_ok)
            opened == g.draft_fix /\ outcome.pr_ok
        IN  [raised |-> g.raised, generated |-> g.draft_fix, opened |-> opened,
             draft_pr_url |-> IF opened THEN "pr_url" ELSE NoUrl]
    ELSE [raised |-> FALSE, generated |-> FALSE, opened |-> FALSE,
          draft_pr_url |-> NoUrl]

\* step 3 of _process_job: the affected files, the call of
\* calculate_bug_assignment and the await of what it returned
assignment_step(j, bug_analysis, trace_files, ranked, expertise, asg, check_errors, threshold) ==
    LET affected_files ==
            IF bug_analysis.available /\ bug_analysis.affected_files # <<>>
            THEN bug_analysis.affected_files ELSE trace_files
        candidates == IF affected_files = <<>> THEN <<>> ELSE ranked
        score == calculate_confidence_score(bug_analysis, expertise,
                                            Len(affected_files))
        call == calculate_bug_assignment(j.issue_id, candidates, score, asg,
                                         check_errors, threshold)
    IN  [call |-> call, awaited |-> Await(call.returned)]

\* the outcomes the draft generator may have (it is not called when step 3
\* raised)
DraftOutcomesAfter(raised) ==
    IF raised THEN {[fix_ok |-> FALSE, pr_ok |-> FALSE]} ELSE DraftOutcomes

\* _process_job from the return of analyze_bug_report to its end: the tables it
\* leaves, the steps that took effect and whether it raised
process_job_rest(j, bug_analysis, trace_files, ranked, expertise, draft, asg, dec, t, check_errors, threshold) ==
    LET step3 == assignment_step(j, bug_analysis, trace_files, ranked, expertise,
                                 asg, check_errors, threshold)
        call == step3.call
        awaited == step3.awaited
        assignment == awaited.value
        d == draft_step(assignment.confidence, bug_analysis, draft)
        draft_pr_url == d.draft_pr_url
        steps3 == j.steps \o <<"analyze", "assign">>
        steps4 == IF draft_pr_url # NoUrl THEN steps3 \o <<"draft">> ELSE steps3
        \* send_bug_assignment_notification(...) is called without await: the
        \* coroutine object is built and dropped, nothing is sent
        steps5 == steps4
        decision == [issue_id |-> j.issue_id, confidence |-> assignment.confidence,
                     draft_pr_url |-> draft_pr_url, created_at |-> t]
        assignment_record == [issue_id |-> j.issue_id,
                              assigned_to_email |-> assignment.assignee_email,
                              confidence |-> assignment.confidence,
                              status |-> "assigned"]
    IN  IF awaited.raised \/ d.raised THEN
            \* line 307: TypeError, logged and re-raised by the except clause
            \* (as the AttributeError of the draft step would be)
            [assignments |-> call.assignments, triage_decisions |-> dec,
             steps |-> steps3, raised |-> TRUE,
             routed |-> assignment.should_route_to_human,
             assignee_email |-> assignment.assignee_email]
        ELSE IF assignment.assignee_email = NoEmail THEN
            \* assigned_to_email is NOT NULL: the commit of both rows fails
            [assignments |-> call.assignments, triage_decisions |-> dec,
             steps |-> steps5, raised |-> TRUE,
             routed |-> assignment.should_route_to_human,
             assignee_email |-> assignment.assignee_email]
        ELSE
            [assignments |-> Append(call.assignments, assignment_record),
             triage_decisions |-> Append(dec, decision),
             steps |-> steps5 \o <<"persist">>, raised |-> FALSE,
             routed |-> assignment.should_route_to_human,
             assignee_email |-> assignment.assignee_email]

(***************************************************************************)
(* AI analysis adapter (ai_analysis_service.py)                            *)
(***************************************************************************)
gemini_failure_threshold == 5
gemini_timeout_seconds == 60
\* _execute_with_retry(prompt, max_retries = 3)
max_retries == 3

\* analyze_bug calls started in one behaviour
MaxAnalyses == 6

\* what one request to the LLM may give: a usable analysis, text that does not
\* parse into one, an empty response, a timeout, an exception
LlmOutcomes == {"analysis", "unparsable", "empty", "timeout", "error"}
\* the requests that failed (error or timeout)
LlmFailures == {"timeout", "error"}

\* Optional[BugAnalysis]; confidence is in hundredths
NoBugAnalysis == [kind |-> "None", fix_complexity |-> "", confidence |-> 0,
                  fallback_analysis |-> FALSE]
LlmBugAnalysis == [kind |-> "llm", fix_complexity |-> "simple", confidence |-> 90,
                   fallback_analysis |-> FALSE]

\* ai_fallback_strategy: the regex analysis, with or without a keyword hit
ai_fallback_strategy(keyword_hit) ==
    [kind |-> "heuristic", fix_complexity |-> "moderate",
     confidence |-> IF keyword_hit THEN 40 ELSE 30, fallback_analysis |-> TRUE]

\* one pass of the loop of _execute_with_retry: attempt counts from 0; the
\* result is to return a value or to go on with the next attempt
_execute_with_retry(attempt, outcome) ==
    CASE outcome = "analysis"   -> [return |-> TRUE, value |-> LlmBugAnalysis]
      [] outcome = "unparsable" -> [return |-> TRUE, value |-> NoBugAnalysis]
      [] OTHER ->
           \* empty response, timeout or exception: the next attempt if there
           \* is one, else the loop ends and None is returned
           IF attempt < max_retries - 1
           THEN [return |-> FALSE, value |-> NoBugAnalysis]
           ELSE [return |-> TRUE, value |-> NoBugAnalysis]

NoAnalyzeCall == [pc |-> "idle", n |-> 0, attempt |-> 0, failed |-> 0]
NoLastAnalysis == [completed |-> FALSE, result |-> NoBugAnalysis, requests |-> 0,
                   failed |-> 0]

\* analyze_bug up to its first suspension: None without a model; else
\* execute_with_fallback enters the breaker and either starts _perform_analysis
\* or, denied, returns what the fallback gives
AnalyzeStart ==
    /\ analyze_call.pc = "idle"
    /\ analyze_call.n < MaxAnalyses
    /\ IF ~gemini_configured THEN
            /\ analyze_call' = [analyze_call EXCEPT !.n = @ + 1]
            /\ last_analysis' = [NoLastAnalysis EXCEPT !.completed = TRUE]
            /\ UNCHANGED <<llm_cb, failed_analyses>>
       ELSE IF can_execute(llm_cb, now) THEN
            /\ llm_cb' = execute_enter(llm_cb, now)
            /\ analyze_call' = [pc |-> "requesting", n |-> analyze_call.n + 1,
                                attempt |-> 0, failed |-> 0]
            /\ UNCHANGED <<last_analysis, failed_analyses>>
       ELSE
            /\ llm_cb' = get_status(execute_enter(llm_cb, now), now)
            /\ analyze_call' = [analyze_call EXCEPT !.n = @ + 1]
            /\ \E keyword_hit \in BOOLEAN :
                 last_analysis' = [completed |-> TRUE,
                                   result |-> ai_fallback_strategy(keyword_hit),
                                   requests |-> 0, failed |-> 0]
            /\ failed_analyses' = 0
    /\ UNCHANGED <<now, breakerVars, ingressVars, notifyVars, assignVars, evalVars, cacheVars, gemini_configured>>

\* one request of _execute_with_retry comes back; when the loop is over,
\* _perform_analysis returns, execute_with_fallback records the success and
\* analyze_bug returns the value
LlmAttempt ==
    /\ analyze_call.pc = "requesting"
    /\ \E outcome \in LlmOutcomes :
         LET r == _execute_with_retry(analyze_call.attempt, outcome)
             failed == analyze_call.failed + (IF outcome \in LlmFailures THEN 1 ELSE 0)
             requests == analyze_call.attempt + 1
         IN  IF r.return THEN
                 /\ llm_cb' = get_status(record_success(llm_cb, now), now)
                 /\ analyze_call' = [NoAnalyzeCall EXCEPT !.n = analyze_call.n]
                 /\ last_analysis' = [completed |-> TRUE, result |-> r.value,
                                      requests |-> requests, failed |-> failed]
                 /\ failed_analyses' = IF failed = requests THEN failed_analyses + 1
                                       ELSE 0
             ELSE
                 /\ analyze_call' = [analyze_call EXCEPT !.attempt = @ + 1,
                                                         !.failed = failed]
                 /\ UNCHANGED <<llm_cb, last_analysis, failed_analyses>>
    /\ UNCHANGED <<now, breakerVars, ingressVars, notifyVars, assignVars, evalVars, cacheVars, gemini_configured>>

InitAnalyzeVars ==
    /\ llm_cb = CircuitBreaker(CircuitBreakerConfig(gemini_failure_threshold,
                                                    gemini_timeout_seconds))
    /\ analyze_call = NoAnalyzeCall
    /\ last_analysis = NoLastAnalysis
    /\ failed_analyses = 0

(***************************************************************************)
(* Chat notification adapter (slack_notification_service.py)               *)
(***************************************************************************)
slack_failure_threshold == 5
slack_timeout_seconds == 60
\* SlackNotificationService.max_retry_attempts
max_retry_attempts == 5

\* _send_with_retry calls started in one behaviour
MaxSends == 3

\* the errors after which _send_slack_message_with_retry does not retry
NonRetryableErrors ==
    {"invalid_auth", "account_inactive", "user_not_found", "channel_not_found"}
\* what one _send_slack_message may give: the message posted, an error of the
\* Slack API, any other exception, or no client for want of a token
SlackErrors == NonRetryableErrors \cup {"ratelimited", "unexpected", "missing token"}
SlackOutcomes(configured) ==
    IF configured THEN {"ok"} \cup (SlackErrors \ {"missing token"})
    ELSE {"missing token"}

\* NotificationResult
NotificationResult(success, error, retry_count) ==
    [success |-> success, error |-> error, retry_count |-> retry_count]

\* one pass of the loop of _send_slack_message_with_retry, which retries
\* whatever the error is
_send_slack_message_with_retry_any_error(attempt, outcome) ==
    [return |-> outcome = "ok" \/ attempt >= max_retry_attempts - 1,
     value |-> NotificationResult(outcome = "ok",
                                  IF outcome = "ok" THEN "None" ELSE outcome, attempt)]

\* one pass of the loop of _send_slack_message_with_retry: attempt counts from
\* 0; the result of the attempt is returned when it succeeded, when its error
\* is not to be retried, or when it was the last attempt
_send_slack_message_with_retry(attempt, outcome) ==
    [return |-> \/ outcome = "ok"
                \/ outcome \in NonRetryableErrors
                \/ attempt >= max_retry_attempts - 1,
     value |-> NotificationResult(outcome = "ok",
                                  IF outcome = "ok" THEN "None" ELSE outcome, attempt)]

\* slack_fallback_strategy: _store_failed_notification adds a row to
\* system_config, and the result reports success
slack_fallback_strategy(rows, t) ==
    [rows |-> Append(rows, [key |-> "failed_notification_", at |-> t]),
     value |-> NotificationResult(TRUE, "None", 0)]

NoSendCall == [pc |-> "idle", n |-> 0, attempt |-> 0, last_error |-> "None"]
NoLastSend == [completed |-> FALSE, attempts |-> 0, delivered |-> FALSE,
               result |-> NotificationResult(FALSE, "None", 0),
               fallback_invoked |-> FALSE]

\* _send_with_retry up to its first suspension: execute_with_fallback enters
\* the breaker and either starts _send_slack_message_with_retry or, denied,
\* returns what the fallback gives
SendStart ==
    /\ send_call.pc = "idle"
    /\ send_call.n < MaxSends
    /\ IF can_execute(slack_cb, now) THEN
            /\ slack_cb' = execute_enter(slack_cb, now)
            /\ send_call' = [pc |-> "sending", n |-> send_call.n + 1,
                             attempt |-> 0, last_error |-> "None"]
            /\ UNCHANGED <<last_send, system_config>>
       ELSE
            LET f == slack_fallback_strategy(system_config, now)
            IN  /\ slack_cb' = get_status(execute_enter(slack_cb, now), now)
                /\ send_call' = [send_call EXCEPT !.n = @ + 1]
                /\ system_config' = f.rows
                /\ last_send' = [completed |-> TRUE, attempts |-> 0,
                                 delivered |-> FALSE, result |-> f.value,
                                 fallback_invoked |-> TRUE]
    /\ UNCHANGED <<now, breakerVars, ingressVars, analyzeVars, assignVars, evalVars, cacheVars, slack_configured>>

\* one _send_slack_message comes back; when the loop is over,
\* execute_with_fallback records the success of the primary function and
\* _send_with_retry returns the result
SendAttempt ==
    /\ send_call.pc = "sending"
    /\ \E outcome \in SlackOutcomes(slack_configured) :
         LET r == _send_slack_message_with_retry(send_call.attempt, outcome)
         IN  IF r.return THEN
                 /\ slack_cb' = get_status(record_success(slack_cb, now), now)
                 /\ send_call' = [NoSendCall EXCEPT !.n = send_call.n]
                 /\ last_send' = [completed |-> TRUE,
                                  attempts |-> send_call.attempt + 1,
                                  delivered |-> r.value.success,
                                  result |-> r.value,
                                  fallback_invoked |-> FALSE]
             ELSE
                 /\ send_call' = [send_call EXCEPT !.attempt = @ + 1,
                                                   !.last_error = r.value.error]
                 /\ UNCHANGED <<slack_cb, last_send>>
    /\ UNCHANGED <<now, breakerVars, ingressVars, analyzeVars, assignVars, evalVars, cacheVars, slack_configured,
                   system_config>>

InitNotifyVars ==
    /\ slack_cb = CircuitBreaker(CircuitBreakerConfig(slack_failure_threshold,
                                                      slack_timeout_seconds))
    /\ send_call = NoSendCall
    /\ last_send = NoLastSend
    /\ system_config = <<>>

(***************************************************************************)
(* Expertise engine and the requests that change what the assignment       *)
(* engine reads (git_analysis_engine.py, api_endpoints.py)                 *)
(***************************************************************************)
\* a cache entry is fresh for 24 hours
cache_hours == 24

\* calculate_bug_assignment calls in one behaviour
MaxTriages == 2
\* requests served by reassign_assignment and update_user in one behaviour
MaxAdminOps == 2
\* hours the clock advances in one step, and the steps after which it stops
HoursPerTick == 24
MaxAssignTicks == 1

\* the authors git blame may give for the affected file, by descending score
ContributorLists ==
    {<<>>, <<"alice">>, <<"alice", "bob", "carol", "dave">>}
\* the developers whose users lookup raises: none, or all (database down)
LookupFailSets == {{}, Developers}

\* GitAnalysisEngine._is_developer_active
_is_developer_active(email, users_table, lookup_fails) ==
    IF email \in lookup_fails THEN TRUE
    ELSE IF users_table[email] = "absent" THEN TRUE
    ELSE users_table[email] = "active"

\* calculate_expertise_scores: one ExpertiseScore per author of the blame
calculate_expertise_scores(blame, users_table, lookup_fails) ==
    [k \in 1..Len(blame) |->
        [developer_email |-> blame[k],
         is_active |-> _is_developer_active(blame[k], users_table, lookup_fails)]]

\* get_cached_expertise that takes every cached developer for active
get_cached_expertise_no_status_check(entries, users_table, lookup_fails) ==
    [k \in 1..Len(entries) |-> [developer_email |-> entries[k], is_active |-> TRUE]]

\* get_cached_expertise: one ExpertiseScore per fresh cache entry, the active
\* status looked up at read time
get_cached_expertise(entries, users_table, lookup_fails) ==
    [k \in 1..Len(entries) |->
        [developer_email |-> entries[k],
         is_active |-> _is_developer_active(entries[k], users_table, lookup_fails)]]

NoCache == [entries |-> <<>>, calculated_at |-> NoTime]
\* the entries of the cache that are less than 24 hours old
FreshEntries(cache, t) ==
    IF cache.entries # <<>> /\ cache.calculated_at > t - cache_hours * 3600
    THEN cache.entries ELSE <<>>

\* get_file_expertise: the scores and the cache it leaves
get_file_expertise(cache, blame, users_table, lookup_fails, t) ==
    LET cached_scores == get_cached_expertise(FreshEntries(cache, t), users_table,
                                              lookup_fails)
        expertise_scores == calculate_expertise_scores(blame, users_table, lookup_fails)
    IN  IF cached_scores # <<>> THEN
            [scores |-> cached_scores, cache |-> cache, source |-> "cache"]
        ELSE
            [scores |-> expertise_scores,
             cache |-> IF expertise_scores # <<>>
                       THEN [entries |-> blame, calculated_at |-> t] ELSE cache,
             source |-> "fresh"]

IsActiveScore(score) == score.is_active
\* get_active_contributors
get_active_contributors(all_scores) == SelectSeq(all_scores, IsActiveScore)

\* get_assignment_candidates for one affected file: the active developers, in
\* the order of their scores
get_assignment_candidates(expertise_scores) ==
    LET active == SelectSeq(expertise_scores, IsActiveScore)
    IN  [k \in 1..Len(active) |-> active[k].developer_email]

SeqRange(seq) == {seq[k] : k \in 1..Len(seq)}

NoTriage == [n |-> 0, issue_id |-> "", source |-> "none", candidates |-> <<>>,
             had_row |-> {}, check_failed |-> {}, inactive |-> {},
             lookup_failed |-> {}, threshold |-> confidence_threshold,
             reassigned_from |-> {},
             result |-> [assignee_email |-> NoEmail, confidence |-> 0,
                         priority |-> "medium", should_route_to_human |-> TRUE,
                         fallback_candidates |-> <<>>]]

\* calculate_bug_assignment for an issue with one affected file
Triage ==
    /\ last_triage.n < MaxTriages
    /\ \E issue_id \in Issues, lookup_fails \in LookupFailSets,
          check_errors \in CheckErrorSets, bug_analysis \in Analyses,
          scores \in ExpertiseData,
          config \in ThresholdConfigs :
        \E blame \in (IF FreshEntries(expertise_cache, now) # <<>> THEN {<<>>}
                      ELSE ContributorLists) :
        \E expertise \in {get_file_expertise(expertise_cache, blame, users,
                                               lookup_fails, now)} :
        \E candidates \in
              {get_assignment_candidates(get_active_contributors(expertise.scores))} :
        \E call \in {calculate_bug_assignment(issue_id, candidates,
                          calculate_confidence_score(bug_analysis, scores, 1),
                          assignments, check_errors,
                          get_confidence_threshold(config))} :
         LET threshold == get_confidence_threshold(config)
         IN  /\ expertise_cache' = expertise.cache
             /\ assignments' = call.assignments
             /\ last_triage' =
                  [n |-> last_triage.n + 1, issue_id |-> issue_id,
                   source |-> expertise.source, candidates |-> candidates,
                   had_row |-> {c \in SeqRange(candidates) :
                                  \E k \in 1..Len(assignments) :
                                    /\ assignments[k].issue_id = issue_id
                                    /\ assignments[k].assigned_to_email = c},
                   check_failed |-> check_errors \cap SeqRange(candidates),
                   inactive |-> {d \in Developers : users[d] = "inactive"},
                   lookup_failed |-> lookup_fails \cap {d \in Developers :
                                                         users[d] = "inactive"},
                   threshold |-> threshold,
                   reassigned_from |-> {p[2] : p \in {q \in reassignments :
                                                        q[1] = issue_id}},
                   result |-> call.returned.value]
    /\ UNCHANGED <<now, breakerVars, analyzeVars, notifyVars, evalVars, cacheVars, github_webhook_secret, second_loop, processing,
                   queue, job, triage_decisions, last_delivery, answers, finished,
                   users, reassignments, admin_ops>>

\* POST /assignments/{assignment_id}/reassign, answered 200
ReassignAssignment ==
    /\ admin_ops < MaxAdminOps
    /\ \E assignment_id \in 1..Len(assignments), new_assignee_email \in Developers :
         LET assignment == assignments[assignment_id]
             old_assignee == assignment.assigned_to_email
         IN  /\ users[new_assignee_email] = "active"
             /\ assignments' =
                  Append([assignments EXCEPT
                            ![assignment_id].assigned_to_email = new_assignee_email,
                            ![assignment_id].status = "reassigned"],
                         [issue_id |-> assignment.issue_id,
                          assigned_to_email |-> new_assignee_email,
                          confidence |-> assignment.confidence,
                          status |-> "assigned"])
             /\ reassignments' =
                  IF new_assignee_email # old_assignee
                  THEN reassignments \cup {<<assignment.issue_id, old_assignee>>}
                  ELSE reassignments
    /\ admin_ops' = admin_ops + 1
    /\ UNCHANGED <<now, breakerVars, analyzeVars, notifyVars, evalVars, cacheVars, github_webhook_secret, second_loop, processing,
                   queue, job, triage_decisions, last_delivery, answers, finished,
                   users, expertise_cache, last_triage>>

\* PUT /config/users/{user_id} with is_active set
UpdateUser ==
    /\ admin_ops < MaxAdminOps
    /\ \E d \in Developers, is_active \in BOOLEAN :
         /\ users[d] # "absent"
         /\ users' = [users EXCEPT ![d] = IF is_active THEN "active" ELSE "inactive"]
         /\ users' # users
    /\ admin_ops' = admin_ops + 1
    /\ UNCHANGED <<now, breakerVars, ingressVars, analyzeVars, notifyVars, evalVars, cacheVars,
                   expertise_cache, last_triage, reassignments>>

TickHours ==
    /\ now < MaxAssignTicks * HoursPerTick * 3600
    /\ now' = now + HoursPerTick * 3600
    /\ UNCHANGED <<breakerVars, ingressVars, analyzeVars, notifyVars, assignVars, evalVars, cacheVars>>

InitAssignVars ==
    /\ users = [d \in Developers |-> IF d = "dave" THEN "absent" ELSE "active"]
    /\ expertise_cache = NoCache
    /\ last_triage = NoTriage
    /\ reassignments = {}
    /\ admin_ops = 0

(***************************************************************************)
(* The expertise cache of several files (git_analysis_engine.py)           *)
(***************************************************************************)
\* the files expertise is asked for
Files == {"backend/x.py", "backend/y.py"}
\* get_file_expertise calls in one behaviour
MaxLookups == 3

\* what execute_git_blame does: it returns the entries (of these authors), or
\* raises TimeoutExpired or CalledProcessError; NoBlame when it is not run
BlameOutcomes == [kind : {"ok", "timeout", "error"}, authors : ContributorLists]
NoBlame == [kind |-> "not_run", authors |-> <<>>]

\* blame_entries that gives the entries whether or not the blame raised
blame_entries_despite_failure(outcome) == outcome.authors

\* calculate_expertise_scores, its try block: the authors it works from, none
\* when execute_git_blame raised (the except clause returns [])
blame_entries(outcome) ==
    IF outcome.kind = "ok" THEN outcome.authors ELSE <<>>

NoLookup == [n |-> 0, file_path |-> "", blame |-> NoBlame,
             before |-> [f \in Files |-> NoCache], scores |-> <<>>,
             source |-> "none"]

\* get_file_expertise(file_path)
GetFileExpertise ==
    /\ last_lookup.n < MaxLookups
    /\ \E file_path \in Files, lookup_fails \in LookupFailSets :
        \E blame \in (IF FreshEntries(cache_table[file_path], now) # <<>>
                      THEN {NoBlame} ELSE BlameOutcomes) :
        \E r \in {get_file_expertise(cache_table[file_path], blame_entries(blame),
                                     users, lookup_fails, now)} :
          /\ cache_table' = [cache_table EXCEPT ![file_path] = r.cache]
          /\ last_lookup' = [n |-> last_lookup.n + 1, file_path |-> file_path,
                             blame |-> blame, before |-> cache_table,
                             scores |-> r.scores, source |-> r.source]
    /\ UNCHANGED <<now, breakerVars, ingressVars, analyzeVars, notifyVars, assignVars,
                   evalVars>>

InitCacheVars ==
    /\ cache_table = [f \in Files |-> NoCache]
    /\ last_lookup = NoLookup

(***************************************************************************)
(* Single operations applied to inputs of their own: the draft step, the   *)
(* confidence score, the system health report                              *)
(***************************************************************************)
\* evaluations in one behaviour
MaxEvals == 1

\* the assignment confidences the draft step is run with
DraftConfidences == {31, 67, 85, 86, 88}
\* the analyses the draft step is run with: those of the worker, one without
\* affected files and one of low confidence
DraftAnalyses ==
    Analyses \cup
    {[affected_files |-> <<>>, available |-> TRUE, confidence |-> 90],
     [affected_files |-> <<"backend/x.py">>, available |-> TRUE, confidence |-> 30]}

\* evaluations made so far
Evals == last_draft.n + last_score.n + last_health.n

\* the value column of the SystemConfig row "draft_pr_enabled"
DraftPrEnabledConfigs == {"true", "false"}

NoDraft == [n |-> 0, confidence |-> 0, bug_analysis |-> NoAnalysis,
            draft_pr_enabled |-> TRUE, config_draft_pr_enabled |-> "true",
            result |-> [raised |-> FALSE, generated |-> FALSE, opened |-> FALSE,
                        draft_pr_url |-> NoUrl]]

\* step 4 of _process_job for an assignment of the given confidence, under the
\* settings.draft_pr_enabled and the SystemConfig row in force: the step reads
\* neither
DraftStep ==
    /\ Evals < MaxEvals
    /\ \E confidence \in DraftConfidences, bug_analysis \in DraftAnalyses,
          outcome \in DraftOutcomes, draft_pr_enabled \in BOOLEAN,
          config_draft_pr_enabled \in DraftPrEnabledConfigs :
         last_draft' = [n |-> last_draft.n + 1, confidence |-> confidence,
                        bug_analysis |-> bug_analysis,
                        draft_pr_enabled |-> draft_pr_enabled,
                        config_draft_pr_enabled |-> config_draft_pr_enabled,
                        result |-> draft_step(confidence, bug_analysis, outcome)]
    /\ UNCHANGED <<now, breakerVars, ingressVars, analyzeVars, notifyVars, assignVars, cacheVars,
                   last_score, last_health>>

\* the inputs calculate_confidence_score is run with
ScoreAnalyses ==
    Analyses \cup
    {[affected_files |-> <<"backend/x.py">>, available |-> TRUE, confidence |-> c] :
        c \in {0, 20, 30, 100}}
ScoreExpertise ==
    {NoExpertise} \cup
    [available : {TRUE}, max_score : {0, 400, 1000, 4000}, covered : {0, 1},
     recent : {0, 1, 6}]
ScoreAffected == {0, 1, 2}

\* the happy path: analysis confidence 0.9 with one affected file, one active
\* developer of score 400 whose last commit is 3 days old
HappyPathAnalysis ==
    [affected_files |-> <<"backend/x.py">>, available |-> TRUE, confidence |-> 90]
HappyPathExpertise ==
    [available |-> TRUE, max_score |-> 400, covered |-> 1, recent |-> 1]

\* ServiceDegradationLevel
ServiceDegradationLevels == {"normal", "degraded", "critical", "offline"}

\* one pass of the loop of get_system_health in which a degraded service
\* overwrites the overall level whatever it was
health_step_last_wins(acc, service_name, level) ==
    IF level \in {"critical", "offline"}
    THEN [overall_level |-> "critical",
          degraded_services |-> Append(acc.degraded_services, service_name)]
    ELSE IF level = "degraded"
    THEN [overall_level |-> "degraded",
          degraded_services |-> Append(acc.degraded_services, service_name)]
    ELSE acc

\* one pass of the loop of get_system_health over service_statuses.items()
health_step(acc, service_name, level) ==
    IF level \in {"critical", "offline"}
    THEN [overall_level |-> "critical",
          degraded_services |-> Append(acc.degraded_services, service_name)]
    ELSE IF level = "degraded" /\ acc.overall_level = "normal"
    THEN [overall_level |-> "degraded",
          degraded_services |-> Append(acc.degraded_services, service_name)]
    ELSE acc

RECURSIVE health_loop(_, _, _)
health_loop(acc, statuses, k) ==
    IF k > Len(statuses) THEN acc
    ELSE health_loop(health_step(acc, k, statuses[k]), statuses, k + 1)

\* GracefulDegradationManager.get_system_health: statuses holds the level of
\* each service in the order of the dictionary; services are named by their
\* position
get_system_health(statuses) ==
    LET r == health_loop([overall_level |-> "normal", degraded_services |-> <<>>],
                         statuses, 1)
    IN  [overall_status |-> r.overall_level,
         degraded_services |-> r.degraded_services]

\* services registered when the health is read
MaxServices == 3
\* the service_statuses the health is read from
ServiceStatuses ==
    UNION {[1..n -> ServiceDegradationLevels] : n \in 0..MaxServices}

NoHealth == [n |-> 0, statuses |-> <<>>,
             result |-> [overall_status |-> "normal", degraded_services |-> <<>>]]

\* GET /health: get_system_health
GetSystemHealth ==
    /\ Evals < MaxEvals
    /\ \E statuses \in ServiceStatuses :
         last_health' = [n |-> last_health.n + 1, statuses |-> statuses,
                         result |-> get_system_health(statuses)]
    /\ UNCHANGED <<now, breakerVars, ingressVars, analyzeVars, notifyVars, assignVars, cacheVars,
                   last_draft, last_score>>

NoScore == [n |-> 0, bug_analysis |-> NoAnalysis, expertise |-> NoExpertise,
            affected |-> 0, value |-> 0]

\* AssignmentEngine.calculate_confidence_score
ConfidenceScore ==
    /\ Evals < MaxEvals
    /\ \E bug_analysis \in ScoreAnalyses, expertise \in ScoreExpertise,
          affected \in ScoreAffected :
         last_score' = [n |-> last_score.n + 1, bug_analysis |-> bug_analysis,
                        expertise |-> expertise, affected |-> affected,
                        value |-> calculate_confidence_score(bug_analysis, expertise,
                                                             affected)]
    /\ UNCHANGED <<now, breakerVars, ingressVars, analyzeVars, notifyVars, assignVars, cacheVars,
                   last_draft, last_health>>

InitEvalVars ==
    /\ last_draft = NoDraft
    /\ last_score = NoScore
    /\ last_health = NoHealth

(***************************************************************************)
(* Bounds of the ingress specification                                     *)
(***************************************************************************)
\* webhook requests delivered in one behaviour
MaxDeliveries == 2
\* minutes the clock advances in one step of the ingress specification
MinutesPerTick == 6
\* the clock stops advancing after this many steps
MaxIngressTicks == 2

(***************************************************************************)
(* Actions of the ingress specification                                    *)
(***************************************************************************)
\* POST /webhook/github
HandleWebhook ==
    /\ last_delivery.n < MaxDeliveries
    /\ \E event_type \in EventTypes, body \in Bodies :
         \E signature \in SignatureHeaders(body) :
           LET r == handle_webhook(event_type, body, signature,
                                   github_webhook_secret, triage_decisions, now)
           IN  /\ queue' = queue \o r.enqueue
               /\ last_delivery' =
                    [n |-> last_delivery.n + 1,
                     event_type |-> event_type,
                     action |-> body.action,
                     matches |-> (signature =
                        [scheme |-> "sha256=",
                         digest |-> hexdigest(github_webhook_secret, body)]),
                     scheme |-> signature.scheme,
                     form |-> signature.digest.form,
                     code |-> r.code,
                     status |-> r.status,
                     enqueued |-> (queue' # queue)]
               /\ answers' =
                    IF r.status \in {"accepted", "duplicate"}
                    THEN Append(answers, [issue_id |-> body.id, status |-> r.status,
                                          at |-> now])
                    ELSE answers
    /\ UNCHANGED <<now, breakerVars, analyzeVars, notifyVars, assignVars, evalVars, cacheVars, github_webhook_secret, second_loop, processing, job, triage_decisions,
                   assignments, finished>>

\* start_processing takes the next job; _process_job runs up to its first
\* suspension, the await of analyze_bug_report
JobStart ==
    /\ job = NoJob
    /\ queue # <<>>
    /\ job' = [pc |-> "analyzing", issue_id |-> IssueIdOf(Head(queue)),
               steps |-> <<"parse">>]
    /\ queue' = Tail(queue)
    /\ UNCHANGED <<now, breakerVars, analyzeVars, notifyVars, assignVars, evalVars, cacheVars, github_webhook_secret, second_loop, processing, triage_decisions,
                   assignments, last_delivery, answers, finished>>

\* a loop that ends when _process_job raised
after_job_raise_ends(raised, flag) ==
    IF raised \/ ~flag THEN WorkerExited ELSE NoJob

\* start_processing once _process_job returned or raised: an Exception is
\* logged, then the loop tests the flag
after_job(raised, flag) ==
    IF flag THEN NoJob ELSE WorkerExited

\* analyze_bug_report returned: the rest of _process_job; an exception it raises
\* is logged by start_processing, which goes on with the next job
JobFinish ==
    /\ job.pc = "analyzing"
    /\ \E bug_analysis \in Analyses, trace_files \in TraceFiles,
          ranked \in CandidateLists, expertise \in ExpertiseData :
        \E check_errors \in CheckErrorSets, config \in ThresholdConfigs :
        \E draft \in DraftOutcomesAfter(
                        assignment_step(job, bug_analysis, trace_files, ranked,
                            expertise, assignments, check_errors,
                            get_confidence_threshold(config)).awaited.raised) :
         \E r \in {process_job_rest(job, bug_analysis, trace_files, ranked, expertise,
                                    draft, assignments, triage_decisions, now,
                                    check_errors, get_confidence_threshold(config))} :
             /\ assignments' = r.assignments
             /\ triage_decisions' = r.triage_decisions
             /\ finished' = Append(finished, [issue_id |-> job.issue_id,
                                              steps |-> r.steps,
                                              raised |-> r.raised,
                                              routed |-> r.routed,
                                              assignee_email |-> r.assignee_email])
             /\ job' = after_job(r.raised, processing)
    /\ UNCHANGED <<now, breakerVars, analyzeVars, notifyVars, assignVars, evalVars, cacheVars, github_webhook_secret, second_loop, processing, queue, last_delivery,
                   answers>>

\* stop_processing (at shutdown)
StopProcessing ==
    /\ processing
    /\ processing' = FALSE
    /\ UNCHANGED <<now, breakerVars, analyzeVars, notifyVars, assignVars, evalVars, cacheVars,
                   github_webhook_secret, second_loop, queue, job, triage_decisions, assignments,
                   last_delivery, answers, finished>>

\* wait_for(self._queue.get(), timeout=1.0) times out on the empty queue: the
\* loop goes on to test the flag, and ends when it is cleared
WaitTimeout ==
    /\ job = NoJob
    /\ queue = <<>>
    /\ ~processing
    /\ job' = WorkerExited
    /\ UNCHANGED <<now, breakerVars, analyzeVars, notifyVars, assignVars, evalVars, cacheVars,
                   github_webhook_secret, second_loop, queue, processing, triage_decisions,
                   assignments, last_delivery, answers, finished>>

\* start_processing was not called a second time
NotStarted == [pc |-> "none"]
\* start_processing found the flag set and returned at once
StartReturned == [pc |-> "returned"]
\* the loop of a start_processing call waits on the queue or processes a job
Running(loop) == loop.pc \in {"idle", "analyzing"}

\* a further call of start_processing (in a task of its own): it returns at
\* once when the flag is set, else it sets the flag and enters the loop
StartProcessing ==
    /\ ~Running(second_loop)
    /\ second_loop' = IF processing THEN StartReturned ELSE NoJob
    /\ processing' = TRUE
    /\ UNCHANGED <<now, breakerVars, analyzeVars, notifyVars, assignVars, evalVars, cacheVars,
                   github_webhook_secret, queue, job, triage_decisions, assignments,
                   last_delivery, answers, finished>>

\* the loop of the later call takes the next job
SecondJobStart ==
    /\ second_loop = NoJob
    /\ queue # <<>>
    /\ second_loop' = [pc |-> "analyzing", issue_id |-> IssueIdOf(Head(queue)),
                       steps |-> <<"parse">>]
    /\ queue' = Tail(queue)
    /\ UNCHANGED <<now, breakerVars, analyzeVars, notifyVars, assignVars, evalVars, cacheVars,
                   github_webhook_secret, job, processing, triage_decisions,
                   assignments, last_delivery, answers, finished>>

\* the rest of _process_job in the loop of the later call
SecondJobFinish ==
    /\ second_loop.pc = "analyzing"
    /\ \E bug_analysis \in Analyses, trace_files \in TraceFiles,
          ranked \in CandidateLists, expertise \in ExpertiseData :
        \E check_errors \in CheckErrorSets, config \in ThresholdConfigs :
        \E draft \in DraftOutcomesAfter(
                        assignment_step(second_loop, bug_analysis, trace_files, ranked,
                            expertise, assignments, check_errors,
                            get_confidence_threshold(config)).awaited.raised) :
         \E r \in {process_job_rest(second_loop, bug_analysis, trace_files, ranked,
                                    expertise, draft, assignments, triage_decisions,
                                    now, check_errors,
                                    get_confidence_threshold(config))} :
             /\ assignments' = r.assignments
             /\ triage_decisions' = r.triage_decisions
             /\ finished' = Append(finished, [issue_id |-> second_loop.issue_id,
                                              steps |-> r.steps,
                                              raised |-> r.raised,
                                              routed |-> r.routed,
                                              assignee_email |-> r.assignee_email])
             /\ second_loop' = after_job(r.raised, processing)
    /\ UNCHANGED <<now, breakerVars, analyzeVars, notifyVars, assignVars, evalVars, cacheVars,
                   github_webhook_secret, job, processing, queue, last_delivery,
                   answers>>

\* the wait of the later loop times out on the empty queue with the flag cleared
SecondWaitTimeout ==
    /\ second_loop = NoJob
    /\ queue = <<>>
    /\ ~processing
    /\ second_loop' = WorkerExited
    /\ UNCHANGED <<now, breakerVars, analyzeVars, notifyVars, assignVars, evalVars, cacheVars,
                   github_webhook_secret, queue, job, processing, triage_decisions,
                   assignments, last_delivery, answers, finished>>

TickMinutes ==
    /\ now < MaxIngressTicks * MinutesPerTick * 60
    /\ now' = now + MinutesPerTick * 60
    /\ UNCHANGED <<breakerVars, ingressVars, analyzeVars, notifyVars, assignVars, evalVars, cacheVars>>

\* the state once the startup event has created the task of start_processing,
\* which set the flag and waits on the empty queue
InitIngressVars ==
    /\ queue = <<>>
    /\ job = NoJob
    /\ processing = TRUE
    /\ second_loop = NotStarted
    /\ triage_decisions = <<>>
    /\ assignments = <<>>
    /\ last_delivery = [n |-> 0, event_type |-> "", action |-> "", matches |-> TRUE, scheme |-> "", form |-> "empty",
                        code |-> 0, status |-> "none", enqueued |-> FALSE]
    /\ answers = <<>>
    /\ finished = <<>>

InitIngress ==
    /\ now = 0
    /\ InitBreakerVars
    /\ fallback_registered = FALSE
    /\ InitAnalyzeVars
    /\ gemini_configured = TRUE
    /\ InitNotifyVars
    /\ InitAssignVars
    /\ InitEvalVars
    /\ InitCacheVars
    /\ slack_configured = TRUE
    /\ InitIngressVars
    /\ github_webhook_secret \in {NoSecret, "k1"}

NextIngress ==
    \/ HandleWebhook
    \/ JobStart
    \/ JobFinish
    \/ TickMinutes

SpecIngress == InitIngress /\ [][NextIngress]_vars

\* The worker under the scheduling of the event loop: a job that is ready is
\* taken, and the analysis a job waits for returns
NextWorker ==
    \/ HandleWebhook
    \/ JobStart
    \/ JobFinish

SpecWorkerFair ==
    /\ InitIngress
    /\ [][NextWorker]_vars
    /\ WF_vars(JobStart)
    /\ WF_vars(JobFinish)

\* The worker around a shutdown: requests, the worker loop and stop_processing
InitShutdown == InitIngress

NextShutdown ==
    \/ HandleWebhook
    \/ JobStart
    \/ JobFinish
    \/ StopProcessing
    \/ WaitTimeout

SpecShutdown == InitShutdown /\ [][NextShutdown]_vars

\* The queue restarted: stop_processing and further start_processing calls
InitRestart == InitIngress

NextRestart ==
    \/ HandleWebhook
    \/ JobStart
    \/ JobFinish
    \/ StopProcessing
    \/ WaitTimeout
    \/ StartProcessing
    \/ SecondJobStart
    \/ SecondJobFinish
    \/ SecondWaitTimeout

SpecRestart == InitRestart /\ [][NextRestart]_vars

InitBreaker ==
    /\ now = 0
    /\ InitBreakerVars
    /\ fallback_registered \in BOOLEAN
    /\ InitAnalyzeVars
    /\ gemini_configured = TRUE
    /\ InitNotifyVars
    /\ InitAssignVars
    /\ InitEvalVars
    /\ InitCacheVars
    /\ slack_configured = TRUE
    /\ InitIngressVars
    /\ github_webhook_secret = NoSecret

NextBreaker ==
    \/ CallAdmitted
    \/ CallDenied
    \/ PrimarySucceeds
    \/ PrimaryFails
    \/ PrimaryCancelled
    \/ GetStatus
    \/ Tick

SpecBreaker == InitBreaker /\ [][NextBreaker]_vars

\* Failing calls over hours: the clock moves in steps on either side of half
\* the throttle period
AlertTicks == {1799, 1801}
MaxAlertSeconds == 5400

TickAlert ==
    \E d \in AlertTicks :
      /\ now + d <= MaxAlertSeconds
      /\ now' = now + d
      /\ UNCHANGED <<breakerVars, ingressVars, analyzeVars, notifyVars, assignVars,
                     evalVars, cacheVars>>

InitAlert == InitBreaker

NextAlert ==
    \/ CallAdmitted
    \/ CallDenied
    \/ PrimaryFails
    \/ TickAlert

SpecAlert == InitAlert /\ [][NextAlert]_vars

(***************************************************************************)
(* The audit table over months: log_triage_decision and cleanup_old_data   *)
(***************************************************************************)
\* cleanup_old_data(days_to_keep = 90); cache entries are kept 30 days
days_to_keep == 90
cache_days_to_keep == 30

\* rows log_triage_decision writes in one behaviour
MaxDecisions == 2
\* days the clock advances in one step, and the steps it takes
DaysPerTick == 45
MaxAuditTicks == 3

\* cleanup_old_data: the tables it leaves at time t
cleanup_old_data(rows, cache, t) ==
    LET cutoff_date == t - days_to_keep * 86400
        cache_cutoff == t - cache_days_to_keep * 86400
    IN  [triage_decisions |-> SelectSeq(rows, LAMBDA r : r.created_at >= cutoff_date),
         expertise_cache |-> IF cache.entries # <<>> /\ cache.calculated_at < cache_cutoff
                             THEN NoCache ELSE cache]

\* ComprehensiveLogger.log_triage_decision: _store_triage_decision adds a row
\* with the confidence and draft_pr_url of decision_data
LogTriageDecision ==
    /\ Len(triage_decisions) < MaxDecisions
    /\ \E issue_id \in Issues, confidence \in {0, 67, 88}, draft_pr_url \in {NoUrl, "pr_url"} :
         triage_decisions' = Append(triage_decisions,
                                    [issue_id |-> issue_id, confidence |-> confidence,
                                     draft_pr_url |-> draft_pr_url, created_at |-> now])
    /\ UNCHANGED <<now, breakerVars, analyzeVars, notifyVars, assignVars, evalVars, cacheVars,
                   github_webhook_secret, second_loop, queue, job, processing, assignments,
                   last_delivery, answers, finished>>

\* cleanup_old_data()
CleanupOldData ==
    /\ LET r == cleanup_old_data(triage_decisions, expertise_cache, now)
       IN  /\ triage_decisions' = r.triage_decisions
           /\ expertise_cache' = r.expertise_cache
    /\ triage_decisions' # triage_decisions \/ expertise_cache' # expertise_cache
    /\ UNCHANGED <<now, breakerVars, analyzeVars, notifyVars, evalVars, cacheVars,
                   github_webhook_secret, second_loop, queue, job, processing, assignments,
                   last_delivery, answers, finished, users, last_triage,
                   reassignments, admin_ops>>

TickDays ==
    /\ now < MaxAuditTicks * DaysPerTick * 86400
    /\ now' = now + DaysPerTick * 86400
    /\ UNCHANGED <<breakerVars, ingressVars, analyzeVars, notifyVars, assignVars, evalVars, cacheVars>>

InitAudit == InitIngress

NextAudit ==
    \/ LogTriageDecision
    \/ CleanupOldData
    \/ TickDays

SpecAudit == InitAudit /\ [][NextAudit]_vars

InitAnalyze ==
    /\ now = 0
    /\ InitBreakerVars
    /\ fallback_registered = TRUE
    /\ InitIngressVars
    /\ github_webhook_secret = NoSecret
    /\ InitAnalyzeVars
    /\ gemini_configured \in BOOLEAN
    /\ InitNotifyVars
    /\ InitAssignVars
    /\ InitEvalVars
    /\ InitCacheVars
    /\ slack_configured = TRUE

NextAnalyze ==
    \/ AnalyzeStart
    \/ LlmAttempt

SpecAnalyze == InitAnalyze /\ [][NextAnalyze]_vars

InitNotify ==
    /\ now = 0
    /\ InitBreakerVars
    /\ fallback_registered = TRUE
    /\ InitIngressVars
    /\ github_webhook_secret = NoSecret
    /\ InitAnalyzeVars
    /\ gemini_configured = TRUE
    /\ InitNotifyVars
    /\ InitAssignVars
    /\ InitEvalVars
    /\ InitCacheVars
    /\ slack_configured \in BOOLEAN

NextNotify ==
    \/ SendStart
    \/ SendAttempt

SpecNotify == InitNotify /\ [][NextNotify]_vars

InitAssign ==
    /\ now = 0
    /\ InitBreakerVars
    /\ fallback_registered = TRUE
    /\ InitIngressVars
    /\ github_webhook_secret = NoSecret
    /\ InitAnalyzeVars
    /\ gemini_configured = TRUE
    /\ InitNotifyVars
    /\ slack_configured = TRUE
    /\ InitAssignVars
    /\ InitEvalVars
    /\ InitCacheVars

NextAssign ==
    \/ Triage
    \/ ReassignAssignment
    \/ UpdateUser
    \/ TickHours

SpecAssign == InitAssign /\ [][NextAssign]_vars

\* Expertise lookups over a day
InitCache == InitAssign

NextCache ==
    \/ GetFileExpertise
    \/ TickHours

SpecCache == InitCache /\ [][NextCache]_vars

InitEval ==
    /\ now = 0
    /\ InitBreakerVars
    /\ fallback_registered = TRUE
    /\ InitIngressVars
    /\ github_webhook_secret = NoSecret
    /\ InitAnalyzeVars
    /\ gemini_configured = TRUE
    /\ InitNotifyVars
    /\ slack_configured = TRUE
    /\ InitAssignVars
    /\ InitEvalVars
    /\ InitCacheVars

NextEval ==
    \/ DraftStep
    \/ ConfidenceScore
    \/ GetSystemHealth

SpecEval == InitEval /\ [][NextEval]_vars

(***************************************************************************)
(* Properties of the circuit breaker, checked under SpecBreaker            *)
(***************************************************************************)
\* a step in which record_success / record_failure ran
SuccessRecorded == cb'.metrics.successful_requests > cb.metrics.successful_requests
FailureRecorded == cb'.metrics.failed_requests > cb.metrics.failed_requests

\* a step in which the breaker denied a call
CallWasDenied == started' = started + 1 /\ in_flight' = in_flight

\* C11: in a call whose primary function raised or which the breaker denied,
\* the fallback is invoked exactly if one is registered; the call raises to the
\* caller exactly if no fallback is registered or the fallback failed; and a
\* call that raises emits an administrator alert unless one with the same key
\* was emitted less than alert_throttle_seconds before (a call that returns
\* the fallback's result emits none).
C11_FallbackThenAlert ==
    [][ (FailureRecorded \/ CallWasDenied) =>
        /\ last_call'.kind = (IF CallWasDenied THEN "denied" ELSE "failed")
        /\ last_call'.fallback_invoked = fallback_registered
        /\ last_call'.raised = ~(fallback_registered /\ last_call'.fallback_ok)
        /\ last_call'.emitted =
             (/\ last_call'.raised
              /\ LET at == administrator_notifications_sent[last_call'.error_message]
                 IN  at = NoTime \/ now - at >= alert_throttle_seconds)
      ]_vars

\* a denied call whose registered fallback failed has raised and emitted an
\* alert, after an earlier call had raised with its alert
C11_Witness ==
    /\ last_call.kind = "denied"
    /\ last_call.fallback_invoked /\ ~last_call.fallback_ok
    /\ last_call.raised /\ last_call.emitted
    /\ \A m \in AlertMessages : administrator_notifications_sent[m] # NoTime

\* C6: the breaker goes from closed to open exactly in the step that records the
\* failure_threshold-th failure with no recorded success in between, and a
\* success recorded in closed leaves failure_count at 0.
C6_ClosedOpensAtThreshold ==
    [][ /\ (cb.state = "closed" /\ cb'.state = "open")
           <=> (cb.state = "closed" /\ FailureRecorded /\ streak' = failure_threshold)
        /\ (cb.state = "closed" /\ SuccessRecorded => cb'.failure_count = 0)
      ]_vars

\* the breaker has opened from closed, after a success in closed had reset a
\* non-empty run of failures
C6_Witness ==
    /\ cb.state = "open"
    /\ cb.success_count = 0
    /\ cb.metrics.successful_requests > 0
    /\ cb.metrics.failed_requests > failure_threshold

\* C7 as stated: while open, no call is admitted and the breaker stays open
\* until more than timeout_seconds have passed since the last failure the
\* breaker recorded (metrics.last_failure_time).
C7_NoAdmissionSinceLastRecordedFailure ==
    [][ (/\ cb.state = "open"
         /\ now - cb.metrics.last_failure_time <= timeout_seconds)
        => (in_flight' <= in_flight /\ cb'.state = "open")
      ]_vars

\* C7 amended: while open, no call is admitted and the breaker stays open until
\* more than timeout_seconds have passed since the breaker last moved to open
\* (the value of self.last_failure_time); it leaves open only for half_open.
C7_NoAdmissionSinceOpened ==
    [][ /\ (cb.state = "open" => cb.last_failure_time = opened_at)
        /\ (cb.state = "open" /\ now - opened_at <= timeout_seconds
              => in_flight' <= in_flight /\ cb'.state = "open")
        /\ (cb.state = "open" /\ cb'.state # "open"
              => cb'.state = "half_open" /\ now - opened_at > timeout_seconds)
      ]_vars

\* the breaker is open, a failure was recorded after it opened, and the timeout
\* counted from the opening has run out exactly
C7_Witness ==
    /\ cb.state = "open"
    /\ cb.metrics.last_failure_time > opened_at
    /\ now - opened_at = timeout_seconds

\* C8: a failure recorded in half_open moves the breaker to open in that step.
C8_HalfOpenFailureReopens ==
    [][ cb.state = "half_open" /\ FailureRecorded => cb'.state = "open" ]_vars

\* the breaker is open again after a half_open period in which some, but not
\* enough, successes were recorded
C8_Witness ==
    /\ cb.state = "open"
    /\ cb.success_count \in 1..(success_threshold - 1)

\* C9: the breaker goes from half_open to closed exactly in the step that
\* records the success_threshold-th success since it entered half_open, and it
\* enters closed with failure_count 0.
C9_HalfOpenClosesAtThreshold ==
    [][ /\ (cb.state = "half_open" /\ cb'.state = "closed")
           <=> (cb.state = "half_open" /\ SuccessRecorded
                  /\ ho_successes' = success_threshold)
        /\ (cb.state = "half_open" /\ cb'.state = "closed" => cb'.failure_count = 0)
      ]_vars

\* the breaker has closed again after having been open
C9_Witness ==
    /\ cb.state = "closed"
    /\ opened_at # NoTime
    /\ cb.success_count = success_threshold
    /\ cb.failure_count = 0

\* C10: total_requests, successful_requests and failed_requests never decrease,
\* and failed_requests + successful_requests <= total_requests in every state.
C10_CountersMonotone ==
    /\ [](cb.metrics.failed_requests + cb.metrics.successful_requests
            <= cb.metrics.total_requests)
    /\ [][ /\ cb'.metrics.total_requests >= cb.metrics.total_requests
           /\ cb'.metrics.successful_requests >= cb.metrics.successful_requests
           /\ cb'.metrics.failed_requests >= cb.metrics.failed_requests ]_vars

\* successes and failures have both been recorded
C10_Witness ==
    /\ cb.metrics.successful_requests > 1
    /\ cb.metrics.failed_requests > 1

(***************************************************************************)
(* Properties of ingress and worker, checked under SpecIngress             *)
(***************************************************************************)
WindowSeconds == duplicate_detection_window_minutes * 60

\* C1: with a secret configured, a request whose signature header is not
\* sha256=<HMAC-SHA-256 of the body under that secret> is answered 401 and puts
\* no job on the queue.
C1_MismatchRejected ==
    (/\ last_delivery.n > 0
     /\ github_webhook_secret # NoSecret
     /\ ~last_delivery.matches)
    => (last_delivery.code = 401 /\ ~last_delivery.enqueued)

RowsOf(rows, issue_id) == {k \in 1..Len(rows) : rows[k].issue_id = issue_id}

\* C3: of two deliveries for one issue within the window, the first is answered
\* accepted and the second duplicate, and the issue gets no second Assignment
\* row while all its deliveries lie within the window of the first.
C3_ReplayIsDuplicate ==
    /\ \A k1, k2 \in 1..Len(answers) :
         (/\ k1 < k2
          /\ answers[k1].issue_id = answers[k2].issue_id
          /\ answers[k2].at - answers[k1].at <= WindowSeconds
          /\ \A k \in 1..(k1 - 1) : answers[k].issue_id # answers[k1].issue_id)
         => (answers[k1].status = "accepted" /\ answers[k2].status = "duplicate")
    /\ \A i \in Issues :
         (\A k1, k2 \in RowsOf(answers, i) :
              answers[k2].at - answers[k1].at <= WindowSeconds)
         => Cardinality(RowsOf(assignments, i)) <= 1

\* C4: every job the worker is done with has left a row in triage_decisions
\* and did not end by raising.
C4_EveryJobLeavesDecision ==
    \A k \in 1..Len(finished) :
        /\ ~finished[k].raised
        /\ RowsOf(triage_decisions, finished[k].issue_id) # {}

\* C5: the steps that took effect in a job the worker is done with are parse,
\* analyze, assign, (draft), notify, persist, in this order.
C5_StepsInOrder ==
    \A k \in 1..Len(finished) :
        finished[k].steps \in
            {<<"parse", "analyze", "assign", "notify", "persist">>,
             <<"parse", "analyze", "assign", "draft", "notify", "persist">>}

(***************************************************************************)
(* Properties of the AI analysis adapter, checked under SpecAnalyze        *)
(***************************************************************************)
\* C12: once gemini_failure_threshold (5) analyze_bug calls in a row have ended
\* with every LLM request failed (error or timeout), the breaker of gemini_api
\* is open and no further request is made to the LLM.
C12_FiveFailedAnalysesOpenBreaker ==
    failed_analyses >= gemini_failure_threshold
    => (llm_cb.state = "open" /\ analyze_call.pc # "requesting")

\* C13: an analyze_bug call in which the adapter gave up (the LLM is not
\* configured, or all max_retries requests failed) returns the heuristic
\* analysis: fix_complexity moderate, confidence 0.3 or 0.4, marked as fallback.
C13_GivingUpReturnsHeuristic ==
    (/\ last_analysis.completed
     /\ \/ ~gemini_configured
        \/ (last_analysis.requests = max_retries /\ last_analysis.failed = max_retries))
    => (/\ last_analysis.result.kind = "heuristic"
        /\ last_analysis.result.fix_complexity = "moderate"
        /\ last_analysis.result.confidence \in {30, 40}
        /\ last_analysis.result.fallback_analysis)

(***************************************************************************)
(* Properties of the chat notification adapter, checked under SpecNotify   *)
(***************************************************************************)
\* C14: a send in which every delivery attempt failed ends with the chat
\* fallback: a row with key prefix failed_notification_ is in system_config and
\* the result reports success.
C14_FailedSendRunsFallback ==
    (last_send.completed /\ ~last_send.delivered)
    => (/\ last_send.fallback_invoked
        /\ \E k \in 1..Len(system_config) :
              system_config[k].key = "failed_notification_"
        /\ last_send.result.success)

\* C15: one send makes at most max_retry_attempts (5) attempts, and an attempt
\* is only ever followed by another when it failed with an error that is not
\* one of the non-retryable ones.
C15_AtMostFiveAttempts ==
    /\ last_send.attempts <= max_retry_attempts
    /\ send_call.pc = "sending" =>
         /\ send_call.attempt < max_retry_attempts
         /\ send_call.last_error \notin NonRetryableErrors
    /\ (last_send.completed /\ last_send.result.error \in NonRetryableErrors) =>
         last_send.attempts = last_send.result.retry_count + 1

C15_Witness ==
    /\ last_send.completed
    /\ last_send.attempts = 3
    /\ last_send.result.error = "invalid_auth"
    /\ send_call.pc = "sending"
    /\ send_call.attempt = max_retry_attempts - 1

(***************************************************************************)
(* Properties of the assignment engine as the worker calls it, checked     *)
(* under SpecIngress                                                       *)
(***************************************************************************)
\* C17: a job whose triage outcome is routed to human leaves the assignments
\* table as it was, through the engine and through the worker's record step
\* alike; a job whose outcome is an auto-assignment adds exactly one row, with
\* the assignee and status assigned.
C17_NoRowForRoutedOutcome ==
    [][ finished' # finished =>
          LET f == finished'[Len(finished')]
          IN  IF f.routed THEN assignments' = assignments
              ELSE /\ f.assignee_email # NoEmail
                   /\ Len(assignments') = Len(assignments) + 1
                   /\ SubSeq(assignments', 1, Len(assignments)) = assignments
                   /\ LET row == assignments'[Len(assignments')]
                      IN  /\ row.issue_id = f.issue_id
                          /\ row.assigned_to_email = f.assignee_email
                          /\ row.status = "assigned"
      ]_vars

C17_Witness ==
    /\ Len(finished) = 2
    /\ finished[1].routed /\ finished[1].steps = <<"parse", "analyze", "assign">>
    /\ ~finished[2].routed
    /\ Len(assignments) = 1
    /\ assignments[1].assigned_to_email = finished[2].assignee_email

(***************************************************************************)
(* Properties of the assignment engine, checked under SpecAssign           *)
(***************************************************************************)
\* the candidates of the last triage that loop prevention did not skip
ValidCandidates ==
    SeqRange(last_triage.candidates) \ (last_triage.had_row \cup last_triage.check_failed)

\* C16: in every AssignmentResult should_route_to_human is true exactly when
\* the confidence is below the threshold or no valid candidate is left, and
\* assignee_email is set exactly when should_route_to_human is false.
C16_RouteIffLowOrNoCandidate ==
    last_triage.n > 0 =>
      LET r == last_triage.result
      IN  /\ r.should_route_to_human <=>
                (r.confidence < last_triage.threshold \/ ValidCandidates = {})
          /\ (r.assignee_email # NoEmail) <=> ~r.should_route_to_human

C16_Witness ==
    /\ last_triage.n > 0
    /\ ValidCandidates # {}
    /\ last_triage.result.confidence >= confidence_threshold
    /\ last_triage.result.confidence < last_triage.threshold
    /\ last_triage.result.should_route_to_human
    /\ last_triage.result.assignee_email = NoEmail

\* C18: a triage of an issue never names as assignee a developer the issue was
\* reassigned away from, and when that developer is the only candidate the
\* result is routed to human with the developer among the fallbacks.
C18_NoAssignmentBackAfterReassign ==
    /\ last_triage.result.assignee_email \notin last_triage.reassigned_from
    /\ \A a \in last_triage.reassigned_from :
         last_triage.candidates = <<a>> =>
           /\ last_triage.result.should_route_to_human
           /\ a \in SeqRange(last_triage.result.fallback_candidates)

\* C19 as stated: the assignee is never a candidate with a row for the issue
\* or a failed check, and when every candidate is skipped the result is routed
\* to human with all the ranked candidates as fallbacks.
C19_SkippedNeverAssignedAllAsFallbacks ==
    /\ last_triage.result.assignee_email \notin
          (last_triage.had_row \cup last_triage.check_failed)
    /\ ValidCandidates = {} =>
         /\ last_triage.result.should_route_to_human
         /\ last_triage.result.fallback_candidates = last_triage.candidates

\* C19 amended: the assignee is never a candidate with a row for the issue or
\* a failed check, and when every candidate is skipped the result is routed to
\* human with the first three of the ranked candidates as fallbacks.
C19_SkippedNeverAssignedTopThreeAsFallbacks ==
    /\ last_triage.result.assignee_email \notin
          (last_triage.had_row \cup last_triage.check_failed)
    /\ ValidCandidates = {} =>
         /\ last_triage.result.should_route_to_human
         /\ last_triage.result.fallback_candidates = Prefix(last_triage.candidates, 3)

C19_Witness ==
    /\ Len(last_triage.candidates) = 4
    /\ last_triage.had_row = {"alice"}
    /\ last_triage.check_failed = SeqRange(last_triage.candidates)
    /\ last_triage.result.should_route_to_human
    /\ last_triage.result.fallback_candidates = <<"alice", "bob", "carol">>

\* C20 as stated: the assignee is never a developer whose users row has
\* is_active false at decision time, from a fresh blame or from the cache.
C20_InactiveNeverAssigned ==
    last_triage.result.assignee_email \notin last_triage.inactive

\* C20 amended: the assignee is never a developer whose users row was read at
\* decision time and has is_active false, from a fresh blame or from the cache;
\* a developer whose lookup failed counts as active.
C20_KnownInactiveNeverAssigned ==
    last_triage.result.assignee_email \notin
        (last_triage.inactive \ last_triage.lookup_failed)

C20_Witness ==
    /\ last_triage.source = "cache"
    /\ "alice" \in last_triage.inactive
    /\ "alice" \in SeqRange(expertise_cache.entries)
    /\ last_triage.lookup_failed = {}
    /\ last_triage.result.assignee_email = "bob"

(***************************************************************************)
(* Properties of single operations, checked under SpecEval                 *)
(***************************************************************************)
\* C21: the draft step generates a fix and opens a draft review request only
\* for an assignment confidence strictly above 85 and an analysis that lists
\* at least one affected file; in every other case nothing is generated and
\* draft_pr_url stays unset.
C21_DraftOnlyAboveGate ==
    last_draft.n > 0 =>
      LET gate == /\ last_draft.confidence > 85
                  /\ last_draft.bug_analysis.available
                  /\ last_draft.bug_analysis.affected_files # <<>>
          r == last_draft.result
      IN  /\ (r.generated \/ r.opened \/ r.draft_pr_url # NoUrl) => gate
          /\ ~gate => (~r.generated /\ ~r.opened /\ r.draft_pr_url = NoUrl)

C21_Witness ==
    /\ last_draft.n > 0
    /\ last_draft.confidence = 86
    /\ last_draft.result.opened
    /\ last_draft.result.draft_pr_url # NoUrl

\* the last calculate_confidence_score call was made with the happy-path input
HappyPathScored ==
    /\ last_score.n > 0
    /\ last_score.bug_analysis = HappyPathAnalysis
    /\ last_score.expertise = HappyPathExpertise
    /\ last_score.affected = 1

\* C22 as stated: for the happy-path input the computed confidence is at least
\* 86 and passes the draft gate.
C22_HappyPathPassesGate ==
    HappyPathScored =>
      (last_score.value >= 86 /\ should_generate_draft_fix(last_score.value))

\* C22 amended: for the happy-path input the computed confidence is 67
\* (36 + 14 + 15 + 2) and does not pass the draft gate.
C22_HappyPathScores67 ==
    HappyPathScored =>
      (last_score.value = 67 /\ ~should_generate_draft_fix(last_score.value))

C22_Witness ==
    /\ HappyPathScored
    /\ last_score.value < 86

(***************************************************************************)
(* Properties of the persisted rows                                        *)
(***************************************************************************)
\* C23: every Assignment row and every TriageDecision row persisted by the
\* worker, the assignment engine or a reassignment has a confidence within
\* 0..100.
C23_ConfidenceWithinBounds ==
    /\ \A k \in 1..Len(assignments) :
         assignments[k].confidence >= 0 /\ assignments[k].confidence <= 100
    /\ \A k \in 1..Len(triage_decisions) :
         triage_decisions[k].confidence >= 0 /\ triage_decisions[k].confidence <= 100

\* a row recorded by the engine from an expertise score above 1000 (the cap of
\* the expertise factor applied: 36 + 35 + 15 + 2), then copied by a
\* reassignment
C23_Witness ==
    \E k \in 1..Len(assignments), m \in 1..Len(assignments) :
      /\ k < m
      /\ assignments[k].status = "reassigned"
      /\ assignments[k].confidence = 88
      /\ assignments[m].issue_id = assignments[k].issue_id
      /\ assignments[m].status = "assigned"
      /\ assignments[m].confidence = 88

\* C24: every AssignmentResult returned by calculate_assignment has priority
\* high exactly when its confidence is at least 80, medium exactly when it is
\* at least 60 and below 80, low exactly when it is below 60, the results
\* routed to a human included.
C24_PriorityFollowsConfidence ==
    last_triage.n > 0 =>
      LET r == last_triage.result
      IN  /\ r.priority = "high" <=> r.confidence >= 80
          /\ r.priority = "medium" <=> (r.confidence >= 60 /\ r.confidence < 80)
          /\ r.priority = "low" <=> r.confidence < 60

(***************************************************************************)
(* Administrator alerts                                                    *)
(***************************************************************************)
\* C25: for each (service, error message) pair at most one administrator
\* alert is emitted within any one-hour interval: two alerts of the same
\* message are at least 3600 seconds apart.
C25_OneAlertPerHour ==
    \A i \in 1..Len(admin_alerts), j \in 1..Len(admin_alerts) :
      (i < j /\ admin_alerts[i].error_message = admin_alerts[j].error_message)
        => admin_alerts[j].at - admin_alerts[i].at >= 3600

\* the same message alerted twice, the second time once the hour was over,
\* with a failing call in between that was throttled
C25_Witness ==
    /\ Len(admin_alerts) >= 2
    /\ \E i \in 1..Len(admin_alerts), j \in 1..Len(admin_alerts) :
         /\ i < j
         /\ admin_alerts[i].error_message = admin_alerts[j].error_message
         /\ admin_alerts[j].at - admin_alerts[i].at = 3600
    /\ last_call.kind \in {"failed", "denied"}
    /\ last_call.raised
    /\ ~last_call.emitted

\* C26: every emitted administrator alert has its own row in system_config
\* under the key admin_alert_<service>_<time>; no emitted alert is lost,
\* whatever the timing of two emissions for the same service.
C26_EveryAlertStored ==
    /\ Len(admin_alert_rows) = Len(admin_alerts)
    /\ \A i \in 1..Len(admin_alerts) :
         \E k \in 1..Len(admin_alert_rows) :
           /\ admin_alert_rows[k].key = admin_alerts[i].at
           /\ admin_alert_rows[k].error = admin_alerts[i].error_message

(***************************************************************************)
(* System health                                                           *)
(***************************************************************************)
\* the rank of a level: critical and offline over degraded over normal
LevelRank(level) ==
    IF level \in {"critical", "offline"} THEN 2
    ELSE IF level = "degraded" THEN 1 ELSE 0

\* C27: get_system_health reports as overall status the worst level among all
\* service statuses (critical for a critical or offline service, else degraded
\* for a degraded one, else normal), whatever the order of the services.
C27_OverallIsWorst ==
    last_health.n > 0 =>
      LET levels == {last_health.statuses[k] : k \in 1..Len(last_health.statuses)}
          overall == last_health.result.overall_status
      IN  /\ overall \in {"normal", "degraded", "critical"}
          /\ \A l \in levels : LevelRank(l) <= LevelRank(overall)
          /\ overall # "normal" => \E l \in levels : LevelRank(l) = LevelRank(overall)

\* a critical service examined before a degraded one
C27_Witness ==
    /\ last_health.n > 0
    /\ last_health.statuses = <<"normal", "offline", "degraded">>
    /\ last_health.result.overall_status = "critical"

(***************************************************************************)
(* Event filter of the webhook                                             *)
(***************************************************************************)
\* the last request was an issues or pull_request event with action opened
OpenedEvent ==
    /\ last_delivery.event_type \in {"issues", "pull_request"}
    /\ last_delivery.action = "opened"

\* C28: a job is enqueued only for an issues or pull_request event whose
\* action is opened; a request of any other event type or action that passed
\* the signature check and the JSON decoding is answered ignored; in both
\* cases of no enqueue the queue is left unchanged.
C28_OnlyOpenedEnqueued ==
    last_delivery.n > 0 =>
      /\ last_delivery.enqueued => (OpenedEvent /\ last_delivery.status = "accepted")
      /\ (~OpenedEvent /\ last_delivery.code = 202)
           => (last_delivery.status = "ignored" /\ ~last_delivery.enqueued)
      /\ ~OpenedEvent => ~last_delivery.enqueued

\* a closed issue answered ignored after an opened one was enqueued
C28_Witness ==
    /\ last_delivery.n = 2
    /\ last_delivery.event_type = "issues"
    /\ last_delivery.action = "closed"
    /\ last_delivery.status = "ignored"
    /\ answers # <<>>
    /\ answers[1].status = "accepted"

(***************************************************************************)
(* Shutdown of the worker                                                  *)
(***************************************************************************)
\* C29: once stop_processing was called the worker takes no further job from
\* the queue, and the job in flight at that moment runs to its end.
C29_NoPickupAfterStop ==
    [][/\ (job.pc = "idle" /\ job'.pc = "analyzing") => processing
       /\ (job.pc = "analyzing" /\ job' # job)
            => Len(finished') = Len(finished) + 1]_vars

(***************************************************************************)
(* The audit table                                                         *)
(***************************************************************************)
\* C30: triage_decisions is append-only: no operation modifies or deletes an
\* existing row; every step leaves the rows it found, in place.
C30_DecisionsAppendOnly ==
    [][/\ Len(triage_decisions') >= Len(triage_decisions)
       /\ \A k \in 1..Len(triage_decisions) :
            k <= Len(triage_decisions') => triage_decisions'[k] = triage_decisions[k]]_vars

(***************************************************************************)
(* The expertise cache                                                     *)
(***************************************************************************)
\* the last get_file_expertise call ran the blame, which timed out or failed
BlameFailed == last_lookup.n > 0 /\ last_lookup.blame.kind \in {"timeout", "error"}

\* C31: when the blame for a file times out or fails, get_file_expertise
\* returns an empty list and the expertise_cache table is left as it was (no
\* row is written for the file).
C31_FailedBlameLeavesCache ==
    BlameFailed => (last_lookup.scores = <<>> /\ cache_table = last_lookup.before)

\* a blame that timed out for a file whose rows are stale
C31_Witness ==
    /\ BlameFailed
    /\ last_lookup.blame.kind = "timeout"
    /\ last_lookup.blame.authors # <<>>
    /\ last_lookup.before[last_lookup.file_path].entries # <<>>
    /\ cache_table[last_lookup.file_path] = last_lookup.before[last_lookup.file_path]

\* the developers of a list of scores, in order
EmailsOf(scores) == [k \in 1..Len(scores) |-> scores[k].developer_email]

\* C32: after a cache miss for a file the rows of the file are exactly the
\* freshly computed set (every earlier row of the file is gone, also when the
\* fresh set is empty), no developer has two rows for the file, and the rows
\* of the other files are unchanged.
C32_MissReplacesRows ==
    (last_lookup.n > 0 /\ last_lookup.source = "fresh") =>
      LET f == last_lookup.file_path
          rows == cache_table[f].entries
      IN  /\ rows = EmailsOf(last_lookup.scores)
          /\ \A i \in 1..Len(rows), j \in 1..Len(rows) : rows[i] = rows[j] => i = j
          /\ \A g \in Files \ {f} : cache_table[g] = last_lookup.before[g]

(***************************************************************************)
(* The breaker under concurrent callers                                    *)
(***************************************************************************)
\* C33: within one half_open episode (from entering half_open until leaving
\* it) at most max_requests_half_open calls are admitted to the primary
\* function, whatever the interleaving of the callers.
C33_HalfOpenAdmissionsBounded ==
    ho_admitted <= max_requests_half_open

\* the episode used up: max_requests_half_open calls admitted, the next denied
C33_Witness ==
    /\ cb.state = "half_open"
    /\ ho_admitted = max_requests_half_open
    /\ last_call.kind = "denied"

\* C34, as a property of states: a breaker in half_open has a way out, a call
\* in flight or an admission left; otherwise no call is admitted again, nothing
\* is recorded and the breaker stays in half_open forever.
C34_HalfOpenCanBeLeft ==
    cb.state = "half_open" =>
      (in_flight > 0 \/ can_execute(cb, now))

\* C35: reading the status (get_status) changes neither the state of the
\* breaker nor its counters: a step that starts no call and ends none leaves
\* the breaker as it was.
C35_StatusReadLeavesBreaker ==
    [][(started' = started /\ in_flight' = in_flight) => cb' = cb]_vars

\* C36: whenever the breaker of the service is open, the level reported for
\* the service is not normal.
C36_OpenIsNotNormal ==
    cb.state = "open" => service_level # "normal"

C38_AtMostOneLoop == ~(Running(job) /\ Running(second_loop))

\* the issues of the accepted deliveries, in arrival order
AcceptedIds ==
    LET accepted == SelectSeq(answers, LAMBDA a : a.status = "accepted")
    IN  [k \in 1..Len(accepted) |-> accepted[k].issue_id]
\* the issues of the jobs the worker took from the queue, in the order taken
AttemptedIds ==
    [k \in 1..Len(finished) |-> finished[k].issue_id]
        \o (IF job.pc = "analyzing" THEN <<job.issue_id>> ELSE <<>>)
QueuedIds == [k \in 1..Len(queue) |-> IssueIdOf(queue[k])]

\* C39: a job whose processing raises does not stop the worker loop: while the
\* flag is set the loop is alive, the jobs are taken in arrival order and none
\* is lost, and every enqueued job is eventually taken and run to its end
C39_RaisingJobDoesNotStopWorker ==
    /\ [](processing => job # WorkerExited)
    /\ [](AttemptedIds \o QueuedIds = AcceptedIds)
    /\ \A n \in 1..MaxDeliveries :
         (Len(AcceptedIds) >= n) ~> (Len(finished) >= n)

\* a job raised and the worker has run the job that arrived after it
C39_Witness ==
    /\ Len(finished) = 2
    /\ finished[1].raised
    /\ Len(AcceptedIds) = 2
    /\ job = NoJob

=============================================================================
